---- MODULE Spec2Model ----
(***************************************************************************)
(* State-machine model of the peer of p2p-network: the request dispatcher  *)
(* (main.procesar_mensaje), the maintenance loop                           *)
(* (main.tareas_mantenimiento), the operator console (main.main) and the   *)
(* overlay manager (src/overlay.py), over a network of in-flight messages. *)
(*                                                                         *)
(* Every handler is one action.  A message sent by networking.             *)
(* enviar_mensaje to a listening peer is put in the bag msgs and handled   *)
(* later by the receiver's per-connection thread; a send to an address     *)
(* where nothing listens raises in the sender.  A message in flight is the *)
(* JSON object of the envelope together with its destination.              *)
(***************************************************************************)
EXTENDS Integers, FiniteSets, Sequences, Bags, TLC

(***************************************************************************)
(* Bounds of the model.                                                    *)
(***************************************************************************)
\* Events the environment may cause in one run (external messages, console
\* commands, maintenance ticks, crashes, shutdowns).
MaxOps == 3
\* Size of the identifier ring standing for [0, 2^160).
RingSize == 16

(***************************************************************************)
(* Program constants.                                                      *)
(***************************************************************************)
\* time.sleep(5) of the maintenance loop.
T_hb == 5
\* the 15 s predecessor timeout of the maintenance loop.
T_timeout == 15

(***************************************************************************)
(* The peers of a run and what the console and clients may name.           *)
(***************************************************************************)
Peers == {"A", "B", "C"}
\* The peers of the four-peer ring.
AllPeers == Peers \cup {"D"}
Ip == [p \in AllPeers |-> IF p \in {"C", "D"} THEN "h2" ELSE "h1"]
Port == [p \in AllPeers |-> IF p \in {"B", "D"} THEN 8002 ELSE 8001]
Keys == {"k1", "k2"}
Values == {"", "v1"}

\* Python's None as a stored value (LocalStorage.get of a missing key).
NoValue == "<None>"
\* Python's None as a peer reference.
None == [id |-> -1, ip |-> "", port |-> 0]

\* The dict {"id": .., "ip": .., "port": ..} the overlay keeps for a neighbour.
PeerRef(id, ip, port) == [id |-> id, ip |-> ip, port |-> port]

(***************************************************************************)
(* Identifier service.                                                     *)
(***************************************************************************)
\* SHA-1 is a fixed injective table on the strings of the model.
HashTable ==
  ("h1:8001" :> 3) @@ ("h1:8002" :> 7) @@ ("h2:8001" :> 12) @@ ("h2:8002" :> 15) @@
  ("k1" :> 5) @@ ("k2" :> 14)

get_hash(s) == HashTable[s] % RingSize

\* f"{ip}:{port}"
AddrStr(ip, port) == ip \o ":" \o ToString(port)

\* OverlayManager.__init__: self.node_id of each peer.
NodeIds == [p \in AllPeers |-> get_hash(AddrStr(Ip[p], Port[p]))]
node_id(p) == NodeIds[p]

SelfRef(p) == PeerRef(node_id(p), Ip[p], Port[p])

\* str(node_id): the decimal string carried as sender_id.
Decimal == [i \in 0..(RingSize - 1) |-> ToString(i)]
str(i) == Decimal[i]
\* int(sender_id) succeeds on decimal strings only.
IsInt(s) == \E i \in 0..(RingSize - 1) : Decimal[i] = s
int(s) == CHOOSE i \in 0..(RingSize - 1) : Decimal[i] = s

(***************************************************************************)
(* Message codec (src/protocol.py).  A JSON text is the object it denotes, *)
(* a record of its members, or [raw |-> text] when it is not JSON.         *)
(***************************************************************************)
EnvelopeFields == {"type", "sender_id", "data", "timestamp"}

\* The values of the enum MessageType.
MessageTypes == {"JOIN", "UPDATE", "PUT", "GET", "RESULT", "HEARTBEAT"}

\* The member of the enum MessageType with the given name; the value of
\* every member is its name.
Member(name) == [enum |-> "MessageType", name |-> name]
EnumValue(member) == member.name

\* What a call of the codec yields: a Message or a raised ValueError.
Message(type, sender_id, data, timestamp) ==
  [outcome |-> "Message", type |-> type, sender_id |-> sender_id,
   data |-> data, timestamp |-> timestamp]
ValueError(detail) == [outcome |-> "ValueError", detail |-> detail]

\* Mutant of serialize_message: the timestamp is written as the time of
\* serialization, not the one of the message.
serialize_message_restamped(message) ==
  [type |-> EnumValue(message.type), sender_id |-> message.sender_id,
   data |-> message.data, timestamp |-> message.timestamp + 1]

\* protocol.serialize_message
serialize_message(message) ==
  [type |-> EnumValue(message.type), sender_id |-> message.sender_id,
   data |-> message.data, timestamp |-> message.timestamp]

\* protocol._validate_payload_content: "ok" or the text of the ValueError.
validate_payload_content(msg_type, data) ==
  IF msg_type = Member("JOIN")
  THEN IF "ip" \notin DOMAIN data \/ "port" \notin DOMAIN data
       THEN "JOIN requiere 'ip' y 'port'" ELSE "ok"
  ELSE IF msg_type = Member("PUT")
  THEN IF "key" \notin DOMAIN data \/ "value" \notin DOMAIN data
       THEN "PUT requiere 'key' y 'value'" ELSE "ok"
  ELSE IF msg_type = Member("GET")
  THEN IF "key" \notin DOMAIN data THEN "GET requiere 'key'" ELSE "ok"
  ELSE "ok"

\* protocol.deserialize_message
deserialize_message(json_str) ==
  IF "raw" \in DOMAIN json_str
  THEN ValueError("Formato JSON invalido")
  ELSE LET payload == json_str
       IN IF ~(EnvelopeFields \subseteq DOMAIN payload)
          THEN ValueError("Faltan campos obligatorios")
          ELSE IF payload.type \notin MessageTypes
          THEN ValueError("Tipo de mensaje desconocido")
          ELSE LET msg_type == Member(payload.type)
                   checked == validate_payload_content(msg_type, payload.data)
               IN IF checked # "ok"
                  THEN ValueError(checked)
                  ELSE Message(msg_type, payload.sender_id, payload.data,
                               payload.timestamp)

(***************************************************************************)
(* State.                                                                  *)
(***************************************************************************)
VARIABLES
  proc,         \* proc[p]: "running" (server socket listening), "left" (shut down) or "killed"
  successor,    \* overlay.successor of each peer
  predecessor,  \* overlay.predecessor of each peer (None when absent)
  hbTicks,      \* maintenance sleeps completed since overlay.last_heartbeat was set
  maint,        \* maint[p]: the maintenance thread of p is running
  store,        \* the LocalStorage mapping of each peer
  msgs,         \* bag of messages accepted by a listening socket, not yet handled
  printed,      \* printed[p]: the (key, value) pairs the process of p has printed
  joined,       \* joined[p]: the bootstrap peer p called overlay.join with, or "-"
  ops,          \* number of environment events so far
  call          \* a call of a function of the overlay on given arguments, and its result

\* No function call is under observation.
NoCall == [fn |-> "-"]

vars == <<proc, successor, predecessor, hbTicks, maint, store, msgs, printed, joined, ops, call>>

\* The process of p runs and its server socket listens.
Alive(p) == proc[p] = "running"

(***************************************************************************)
(* Overlay manager (src/overlay.py).                                       *)
(***************************************************************************)
\* Mutant of InitSuccessor: the successor is left unset, like the predecessor.
InitSuccessor_unset(p) == None

\* OverlayManager.__init__: the successor is the peer itself.
InitSuccessor(p) == PeerRef(node_id(p), Ip[p], Port[p])
\* OverlayManager.__init__: no predecessor.
InitPredecessor(p) == None

\* Mutant of is_responsible: the upper bound of the arc is excluded.
is_responsible_upper_excluded(pred, n_id, target_id) ==
  IF pred = None
  THEN TRUE
  ELSE LET p_id == pred.id
       IN IF p_id < n_id
          THEN p_id < target_id /\ target_id < n_id
          ELSE target_id > p_id \/ target_id < n_id

\* Mutant of is_responsible: the lower bound of the arc is included.
is_responsible_lower_included(pred, n_id, target_id) ==
  IF pred = None
  THEN TRUE
  ELSE LET p_id == pred.id
       IN IF p_id < n_id
          THEN p_id <= target_id /\ target_id <= n_id
          ELSE target_id >= p_id \/ target_id <= n_id

\* OverlayManager.is_responsible, on the predecessor reference pred of the
\* peer with identifier n_id.
is_responsible(pred, n_id, target_id) ==
  IF pred = None
  THEN TRUE
  ELSE LET p_id == pred.id
       IN IF p_id < n_id
          THEN p_id < target_id /\ target_id <= n_id
          ELSE target_id > p_id \/ target_id <= n_id

\* OverlayManager.update_successor: the new value of self.successor.
update_successor(new_id, new_ip, new_port) == PeerRef(new_id, new_ip, new_port)

\* OverlayManager.update_predecessor: the new value of self.predecessor.
update_predecessor(new_id, new_ip, new_port) == PeerRef(new_id, new_ip, new_port)

\* OverlayManager.is_better_predecessor.
is_better_predecessor(pred, n_id, p_id) ==
  LET current_p_id == pred.id
  IN IF current_p_id < n_id
     THEN current_p_id < p_id /\ p_id < n_id
     ELSE p_id > current_p_id \/ p_id < n_id

\* Mutant of notify: the sender is accepted whatever the current predecessor.
notify_unconditional(pred, n_id, potential_predecessor_id, ip, port) ==
  update_predecessor(potential_predecessor_id, ip, port)

\* OverlayManager.notify: the bool it returns.
notify_returns(pred, n_id, potential_predecessor_id) ==
  pred = None \/ is_better_predecessor(pred, n_id, potential_predecessor_id)

\* OverlayManager.notify: the new value of self.predecessor.
notify(pred, n_id, potential_predecessor_id, ip, port) ==
  IF pred = None \/ is_better_predecessor(pred, n_id, potential_predecessor_id)
  THEN update_predecessor(potential_predecessor_id, ip, port)
  ELSE pred

\* process_stabilize_response accepting a candidate equal to the successor.
process_stabilize_response_inclusive(succ, n_id, candidate_id, candidate_ip, candidate_port) ==
  LET s_id == succ.id
  IN IF candidate_id # None.id
        /\ \/ n_id < candidate_id /\ candidate_id <= s_id
           \/ n_id > s_id /\ (candidate_id > n_id \/ candidate_id <= s_id)
     THEN update_successor(candidate_id, candidate_ip, candidate_port)
     ELSE succ

\* OverlayManager.process_stabilize_response: the new value of self.successor.
\* A candidate_id of None is written None.id.
process_stabilize_response(succ, n_id, candidate_id, candidate_ip, candidate_port) ==
  LET s_id == succ.id
  IN IF candidate_id # None.id
        /\ \/ n_id < candidate_id /\ candidate_id < s_id
           \/ n_id > s_id /\ (candidate_id > n_id \/ candidate_id < s_id)
     THEN update_successor(candidate_id, candidate_ip, candidate_port)
     ELSE succ

\* OverlayManager.handle_successor_failure: the successor reverts to self.
handle_successor_failure(p, succ) ==
  IF succ.id # node_id(p) THEN SelfRef(p) ELSE succ

(***************************************************************************)
(* Transport.                                                              *)
(***************************************************************************)
\* A TCP connection to (ip, port) is accepted iff a live peer listens there.
Listening(ip, port) ==
  \E p \in DOMAIN proc : Alive(p) /\ Ip[p] = ip /\ Port[p] = port

\* Message.__post_init__: time.time() when the message is built; the clock
\* does not advance within a run.
Clock == 0

\* A wire message on its way to (ip, port): serialize_message(Message(type,
\* sender_id, data)) written to a connection to that address.
Msg(ip, port, type, sender_id, data) ==
  LET e == serialize_message(Message(Member(type), sender_id, data, Clock))
  IN [to |-> [ip |-> ip, port |-> port], type |-> e.type,
      sender_id |-> e.sender_id, data |-> e.data, timestamp |-> e.timestamp]

\* The JSON text a message in flight carries.
Envelope(m) == [f \in DOMAIN m \ {"to"} |-> m[f]]

\* networking.enviar_mensaje: create_connection raises when nothing listens;
\* otherwise the payload is written and the reply line is read.  The peer's
\* server closes the connection without writing, so the reply is "".
enviar_mensaje(ip, port) == IF Listening(ip, port) THEN "" ELSE "raise"

\* Python truthiness of what enviar_mensaje returns.
Truthy(x) == x # ""

Put(bag, m) == bag (+) SetToBag({m})
Take(bag, m) == bag (-) SetToBag({m})

\* The bag after a handler that consumed m attempted the sends of the sequence
\* out in order, stopping at the first send that raises.
RECURSIVE SendAll(_, _)
SendAll(bag, out) ==
  IF out = <<>> THEN bag
  ELSE LET m == Head(out)
       IN IF enviar_mensaje(m.to.ip, m.to.port) = "raise"
          THEN bag
          ELSE SendAll(Put(bag, m), Tail(out))

(***************************************************************************)
(* Initial state: every peer constructed (OverlayManager, LocalStorage),   *)
(* its server listening and its maintenance thread started.                *)
(***************************************************************************)
Init ==
  /\ proc = [p \in Peers |-> "running"]
  /\ successor = [p \in Peers |-> InitSuccessor(p)]
  /\ predecessor = [p \in Peers |-> InitPredecessor(p)]
  /\ hbTicks = [p \in Peers |-> 0]
  /\ maint = [p \in Peers |-> TRUE]
  /\ store = [p \in Peers |-> [k \in Keys |-> NoValue]]
  /\ msgs = EmptyBag
  /\ printed = [p \in Peers |-> {}]
  /\ joined = [p \in Peers |-> "-"]
  /\ ops = 0
  /\ call = NoCall

(***************************************************************************)
(* Request dispatcher (main.procesar_mensaje).  An exception raised inside *)
(* a handler is caught by the except clause: the handler stops where it    *)
(* is and what it has assigned so far stays.                               *)
(***************************************************************************)
\* Python truthiness of what LocalStorage.get returns: None and "" are false.
ValTruthy(val) == val # NoValue /\ val # ""

\* The handler of n for the message m reads a member of data that is absent
\* (KeyError) before it has changed or sent anything.
HandlerKeyError(n, m) ==
  LET has(f) == f \in DOMAIN m.data
  IN CASE m.type = "GET" ->
            IF ValTruthy(store[n][m.data.key])
            THEN ~has("requester_ip") \/ ~has("requester_port")
            ELSE IF ~has("requester_port") THEN TRUE
                 ELSE m.data.requester_port = Port[n] /\ ~has("requester_ip")
       [] m.type = "HEARTBEAT" ->
            IsInt(m.sender_id) /\ (~has("ip") \/ ~has("port"))
       [] m.type = "UPDATE" ->
            IF ~has("role") THEN TRUE
            ELSE /\ m.data.role \in {"predecessor", "successor"}
                 /\ IsInt(m.sender_id)
                 /\ (~has("ip") \/ ~has("port"))
       [] m.type = "RESULT" -> ~has("key") \/ ~has("value")
       [] OTHER -> FALSE

\* The process of n is up and m is addressed to it.
Accepts(n, m) ==
  /\ Alive(n)
  /\ BagIn(m, msgs)
  /\ m.to = [ip |-> Ip[n], port |-> Port[n]]

\* Every handler runs in a live process on a message addressed to it that
\* deserialize_message accepted, and runs to its end.
Receives(n, m, type) ==
  /\ Accepts(n, m)
  /\ LET msg == deserialize_message(Envelope(m))
     IN msg.outcome = "Message" /\ msg.type = Member(type)
  /\ ~HandlerKeyError(n, m)

\* The payload is not JSON (dropped by the server) or deserialize_message
\* raises ValueError (caught by the except clause of procesar_mensaje).
RejectPayload(n, m) ==
  /\ Accepts(n, m)
  /\ deserialize_message(Envelope(m)).outcome # "Message"
  /\ msgs' = Take(msgs, m)
  /\ UNCHANGED <<call, proc, successor, predecessor, hbTicks, maint, store, printed, joined, ops>>

\* The handler raises KeyError, caught by the except clause.
HandlerRaises(n, m) ==
  /\ Accepts(n, m)
  /\ deserialize_message(Envelope(m)).outcome = "Message"
  /\ HandlerKeyError(n, m)
  /\ msgs' = Take(msgs, m)
  /\ UNCHANGED <<call, proc, successor, predecessor, hbTicks, maint, store, printed, joined, ops>>

\* main.transferir_llaves: the loop body calls overlay.is_responsible with two
\* arguments, which OverlayManager.is_responsible (one parameter) rejects
\* with TypeError on the first entry of the snapshot; no PUT is ever built.
transferir_llaves(n, nuevo_nodo_id, nuevo_ip, nuevo_port) ==
  IF \E k \in Keys : store[n][k] # NoValue THEN "raise" ELSE "ok"

\* JOIN
HandleJOIN(n, m) ==
  /\ Receives(n, m, "JOIN")
  /\ IF ~IsInt(m.sender_id)
     THEN /\ msgs' = Take(msgs, m)
          /\ UNCHANGED <<successor, predecessor>>
     ELSE LET new_id == int(m.sender_id)
              new_ip == m.data.ip
              new_port == m.data.port
              resp == Msg(new_ip, new_port, "UPDATE", str(node_id(n)),
                          [role |-> "predecessor", ip |-> Ip[n], port |-> Port[n]])
          IN /\ successor' =
                  [successor EXCEPT ![n] = update_successor(new_id, new_ip, new_port)]
             /\ predecessor' =
                  [predecessor EXCEPT ![n] =
                     IF successor[n].id = node_id(n)
                     THEN update_predecessor(new_id, new_ip, new_port)
                     ELSE @]
             /\ msgs' =
                  IF transferir_llaves(n, new_id, new_ip, new_port) = "raise"
                  THEN Take(msgs, m)
                  ELSE SendAll(Take(msgs, m), <<resp>>)
  /\ UNCHANGED <<call, proc, hbTicks, maint, store, printed, joined, ops>>

\* Mutant of IsReplica: the flag of the payload is ignored.
IsReplica_ignored(data) == FALSE

\* msg.data.get("is_replica", False)
IsReplica(data) ==
  IF "is_replica" \in DOMAIN data THEN data.is_replica ELSE FALSE

\* PUT
HandlePUT(n, m) ==
  /\ Receives(n, m, "PUT")
  /\ LET key == m.data.key
         val == m.data.value
         s == successor[n]
         rep_msg == Msg(s.ip, s.port, "PUT", str(node_id(n)),
                        [key |-> key, value |-> val, is_replica |-> TRUE])
     IN /\ store' = [store EXCEPT ![n][key] = val]
        /\ msgs' =
             IF ~IsReplica(m.data) /\ s.id # node_id(n)
             THEN SendAll(Take(msgs, m), <<rep_msg>>)
             ELSE Take(msgs, m)
  /\ UNCHANGED <<call, proc, successor, predecessor, hbTicks, maint, printed, joined, ops>>

\* GET: what the handler does to the peer and the network.
GetHandler(n, m) ==
  /\ Receives(n, m, "GET")
  /\ LET key == m.data.key
         val == store[n][key]
         s == successor[n]
         resp == Msg(m.data.requester_ip, m.data.requester_port, "RESULT",
                     str(node_id(n)), [key |-> key, value |-> val])
         fwd == [m EXCEPT !.to = [ip |-> s.ip, port |-> s.port]]
     IN msgs' =
          IF ValTruthy(val)
          THEN SendAll(Take(msgs, m), <<resp>>)
          ELSE IF m.data.requester_port # Port[n] \/ m.data.requester_ip # Ip[n]
               THEN SendAll(Take(msgs, m), <<fwd>>)
               ELSE Take(msgs, m)
  /\ UNCHANGED <<proc, successor, predecessor, hbTicks, maint, store, printed, joined, ops>>

\* GET
HandleGET(n, m) == GetHandler(n, m) /\ UNCHANGED call

\* The GET handler of n on m takes the branch that forwards m to the
\* successor, and the send does not raise.
GetForwards(n, m) ==
  /\ ~ValTruthy(store[n][m.data.key])
  /\ (m.data.requester_port # Port[n] \/ m.data.requester_ip # Ip[n])
  /\ enviar_mensaje(successor[n].ip, successor[n].port) # "raise"

\* Mutant of HandleHEARTBEAT: the sender becomes the successor whatever the
\* successor was.
HandleHEARTBEAT_always(n, m) ==
  /\ Receives(n, m, "HEARTBEAT")
  /\ msgs' = Take(msgs, m)
  /\ IF ~IsInt(m.sender_id)
     THEN UNCHANGED <<successor, predecessor>>
     ELSE /\ predecessor' =
               [predecessor EXCEPT ![n] =
                  notify(@, node_id(n), int(m.sender_id), m.data.ip, m.data.port)]
          /\ successor' =
               [successor EXCEPT ![n] =
                  update_successor(int(m.sender_id), m.data.ip, m.data.port)]
  /\ UNCHANGED <<call, proc, hbTicks, maint, store, printed, joined, ops>>

\* HEARTBEAT
HandleHEARTBEAT(n, m) ==
  /\ Receives(n, m, "HEARTBEAT")
  /\ msgs' = Take(msgs, m)
  /\ IF ~IsInt(m.sender_id)
     THEN UNCHANGED <<successor, predecessor>>
     ELSE /\ predecessor' =
               [predecessor EXCEPT ![n] =
                  notify(@, node_id(n), int(m.sender_id), m.data.ip, m.data.port)]
          /\ successor' =
               [successor EXCEPT ![n] =
                  IF @.id = node_id(n)
                  THEN update_successor(int(m.sender_id), m.data.ip, m.data.port)
                  ELSE @]
  /\ UNCHANGED <<call, proc, hbTicks, maint, store, printed, joined, ops>>

\* UPDATE
HandleUPDATE(n, m) ==
  /\ Receives(n, m, "UPDATE")
  /\ msgs' = Take(msgs, m)
  /\ IF ~IsInt(m.sender_id)
     THEN UNCHANGED <<successor, predecessor>>
     ELSE /\ predecessor' =
               [predecessor EXCEPT ![n] =
                  IF m.data.role = "predecessor"
                  THEN update_predecessor(int(m.sender_id), m.data.ip, m.data.port)
                  ELSE @]
          /\ successor' =
               [successor EXCEPT ![n] =
                  IF m.data.role # "predecessor" /\ m.data.role = "successor"
                  THEN update_successor(int(m.sender_id), m.data.ip, m.data.port)
                  ELSE @]
  /\ UNCHANGED <<call, proc, hbTicks, maint, store, printed, joined, ops>>

\* RESULT: printed on the console of the receiver.
HandleRESULT(n, m) ==
  /\ Receives(n, m, "RESULT")
  /\ msgs' = Take(msgs, m)
  /\ printed' = [printed EXCEPT ![n] =
                   @ \cup {[kind |-> "RESULTADO", key |-> m.data.key, value |-> m.data.value]}]
  /\ UNCHANGED <<call, proc, successor, predecessor, hbTicks, maint, store, joined, ops>>

(***************************************************************************)
(* Shutdown (the finally clause of main.main): overlay.leave(), then the   *)
(* server socket is closed and the process ends.                           *)
(***************************************************************************)
\* OverlayManager.leave: with both neighbours distinct from self, the
\* predecessor is handed to the successor and the successor to the
\* predecessor, each in an UPDATE sent on a best-effort basis.
leave(p) ==
  LET s == successor[p]
      q == predecessor[p]
      toSucc == Msg(s.ip, s.port, "UPDATE", str(node_id(p)),
                    [role |-> "predecessor", ip |-> q.ip, port |-> q.port])
      toPred == Msg(q.ip, q.port, "UPDATE", str(node_id(p)),
                    [role |-> "successor", ip |-> s.ip, port |-> s.port])
  IN IF s.id # node_id(p) /\ q # None /\ q.id # node_id(p)
     THEN SelectSeq(<<toSucc, toPred>>,
                    LAMBDA m : enviar_mensaje(m.to.ip, m.to.port) # "raise")
     ELSE <<>>

\* The bag after the peer p, having put the bag in state bag, shuts down.
RECURSIVE PutAll(_, _)
PutAll(bag, out) ==
  IF out = <<>> THEN bag ELSE PutAll(Put(bag, Head(out)), Tail(out))

AfterLeave(p, bag) == PutAll(bag, leave(p))

(***************************************************************************)
(* Maintenance loop (main.tareas_mantenimiento): one iteration.            *)
(***************************************************************************)
\* time.time() - overlay.last_heartbeat > 15, after ticks sleeps of 5 s each
\* (a sleep lasts at least 5 s and the loop body takes time, so the elapsed
\* time exceeds 5 * ticks strictly).
PredecessorTimedOut(ticks) == ticks * T_hb >= T_timeout

tareas_mantenimiento(n) ==
  /\ Alive(n) /\ maint[n]
  /\ LET s == successor[n]
         hb == Msg(s.ip, s.port, "HEARTBEAT", str(node_id(n)),
                   [ip |-> Ip[n], port |-> Port[n]])
         ticks == IF PredecessorTimedOut(hbTicks[n]) THEN hbTicks[n] ELSE hbTicks[n] + 1
     IN /\ hbTicks' = [hbTicks EXCEPT ![n] = ticks]
        /\ IF s.id # node_id(n) /\ enviar_mensaje(s.ip, s.port) = "raise"
           THEN \* the exception leaves the loop: the thread ends
                /\ maint' = [maint EXCEPT ![n] = FALSE]
                /\ UNCHANGED <<successor, predecessor, msgs>>
           ELSE /\ maint' = maint
                /\ msgs' = IF s.id # node_id(n) THEN Put(msgs, hb) ELSE msgs
                /\ successor' =
                     [successor EXCEPT ![n] =
                        IF s.id # node_id(n) /\ ~Truthy(enviar_mensaje(s.ip, s.port))
                        THEN handle_successor_failure(n, @)
                        ELSE @]
                /\ predecessor' =
                     [predecessor EXCEPT ![n] =
                        IF @ # None /\ PredecessorTimedOut(ticks) THEN None ELSE @]
  /\ UNCHANGED <<call, proc, store, printed, joined>>

(***************************************************************************)
(* Operator console (main.main).  An exception other than                  *)
(* KeyboardInterrupt leaves the loop through the finally clause.           *)
(***************************************************************************)
\* Option 2.
ConsolePUT(n, k, v) ==
  /\ Alive(n)
  /\ ops' = ops + 1
  /\ LET s == successor[n]
         responsible == is_responsible(predecessor[n], node_id(n), get_hash(k))
         stored == [store EXCEPT ![n][k] = v]
         rep == Msg(s.ip, s.port, "PUT", str(node_id(n)),
                    [key |-> k, value |-> v, is_replica |-> TRUE])
         fwd == Msg(s.ip, s.port, "PUT", str(node_id(n)), [key |-> k, value |-> v])
         sends == (~responsible) \/ s.id # node_id(n)
         raises == sends /\ enviar_mensaje(s.ip, s.port) = "raise"
     IN /\ store' = IF responsible THEN stored ELSE store
        /\ msgs' = IF raises THEN AfterLeave(n, msgs)
                   ELSE IF sends THEN Put(msgs, IF responsible THEN rep ELSE fwd)
                   ELSE msgs
        /\ proc' = [proc EXCEPT ![n] = IF raises THEN "left" ELSE @]
        /\ maint' = [maint EXCEPT ![n] = @ /\ ~raises]
  /\ UNCHANGED <<call, successor, predecessor, hbTicks, printed, joined>>

\* Option 3.
ConsoleGET(n, k) ==
  /\ Alive(n)
  /\ ops' = ops + 1
  /\ LET s == successor[n]
         val == store[n][k]
         get == Msg(s.ip, s.port, "GET", str(node_id(n)),
                    [key |-> k, requester_ip |-> Ip[n], requester_port |-> Port[n]])
         raises == ~ValTruthy(val) /\ enviar_mensaje(s.ip, s.port) = "raise"
     IN /\ printed' = [printed EXCEPT ![n] =
                         IF ValTruthy(val)
                         THEN @ \cup {[kind |-> "local", key |-> k, value |-> val]}
                         ELSE @]
        /\ msgs' = IF ValTruthy(val) THEN msgs
                   ELSE IF raises THEN AfterLeave(n, msgs)
                   ELSE Put(msgs, get)
        /\ proc' = [proc EXCEPT ![n] = IF raises THEN "left" ELSE @]
        /\ maint' = [maint EXCEPT ![n] = @ /\ ~raises]
  /\ UNCHANGED <<call, successor, predecessor, hbTicks, store, joined>>

\* Option q.
ConsoleQuit(n) ==
  /\ Alive(n)
  /\ ops' = ops + 1
  /\ msgs' = AfterLeave(n, msgs)
  /\ proc' = [proc EXCEPT ![n] = "left"]
  /\ maint' = [maint EXCEPT ![n] = FALSE]
  /\ UNCHANGED <<call, successor, predecessor, hbTicks, store, printed, joined>>

\* OverlayManager.join: logs and returns; nothing is sent.
join(n, b) ==
  /\ Alive(n) /\ joined[n] = "-"
  /\ ops' = ops + 1
  /\ joined' = [joined EXCEPT ![n] = b]
  /\ UNCHANGED <<call, proc, successor, predecessor, hbTicks, maint, store, msgs, printed>>

(***************************************************************************)
(* Environment.                                                            *)
(***************************************************************************)
\* The process of n is killed.
Crash(n) ==
  /\ Alive(n)
  /\ ops' = ops + 1
  /\ proc' = [proc EXCEPT ![n] = "killed"]
  /\ maint' = [maint EXCEPT ![n] = FALSE]
  /\ UNCHANGED <<call, successor, predecessor, hbTicks, store, msgs, printed, joined>>

\* The well-formed envelopes a TCP client may write to the socket of n: the
\* JOIN of a peer j, carrying the identifier and the address of j, and the PUT
\* (without replica flag) and GET of a client "ext", as in
\* tests/test_distributed.py.
JoinMsgs(n) ==
  { Msg(Ip[n], Port[n], "JOIN", str(node_id(j)), [ip |-> Ip[j], port |-> Port[j]])
      : j \in Peers }

DataMsgs(n) ==
  { Msg(Ip[n], Port[n], "PUT", "ext", [key |-> k, value |-> v])
      : k \in Keys, v \in Values }
  \cup
  { Msg(Ip[n], Port[n], "GET", "ext",
        [key |-> k, requester_ip |-> Ip[r], requester_port |-> Port[r]])
      : k \in Keys, r \in Peers }

External(n, m) ==
  /\ Alive(n)
  /\ ops' = ops + 1
  /\ msgs' = Put(msgs, m)
  /\ UNCHANGED <<call, proc, successor, predecessor, hbTicks, maint, store, printed, joined>>

(***************************************************************************)
(* Specification.                                                          *)
(***************************************************************************)
Next ==
  \/ \E n \in Peers : \E m \in BagToSet(msgs) : HandleJOIN(n, m)
  \/ \E n \in Peers : \E m \in BagToSet(msgs) : HandlePUT(n, m)
  \/ \E n \in Peers : \E m \in BagToSet(msgs) : HandleGET(n, m)
  \/ \E n \in Peers : \E m \in BagToSet(msgs) : HandleHEARTBEAT(n, m)
  \/ \E n \in Peers : \E m \in BagToSet(msgs) : HandleUPDATE(n, m)
  \/ \E n \in Peers : \E m \in BagToSet(msgs) : HandleRESULT(n, m)
  \/ ops < MaxOps /\ ops' = ops + 1 /\ \E n \in Peers : tareas_mantenimiento(n)
  \/ ops < MaxOps /\ \E n \in Peers, k \in Keys, v \in Values : ConsolePUT(n, k, v)
  \/ ops < MaxOps /\ \E n \in Peers, k \in Keys : ConsoleGET(n, k)
  \/ ops < MaxOps /\ \E n \in Peers : ConsoleQuit(n)
  \/ ops < MaxOps /\ \E n \in Peers, b \in Peers : join(n, b)
  \/ ops < MaxOps /\ \E n \in Peers : Crash(n)
  \/ ops < MaxOps /\ \E n \in Peers : \E m \in JoinMsgs(n) \cup DataMsgs(n) : External(n, m)

Spec == Init /\ [][Next]_vars

(***************************************************************************)
(* Graceful leave in a ring grown by JOINs: the JOINs of peers, the JOIN   *)
(* and UPDATE handlers and the shutdown of a peer.                         *)
(***************************************************************************)
\* Events of a run of SpecLeave.
MaxLeaveOps == 4

NextLeave ==
  \/ \E n \in Peers : \E m \in BagToSet(msgs) : HandleJOIN(n, m)
  \/ \E n \in Peers : \E m \in BagToSet(msgs) : HandleUPDATE(n, m)
  \/ ops < MaxLeaveOps /\ \E n \in Peers : ConsoleQuit(n)
  \/ ops < MaxLeaveOps /\ \E n \in Peers : \E m \in JoinMsgs(n) : External(n, m)

SpecLeave == Init /\ [][NextLeave]_vars

(***************************************************************************)
(* Forwarding of one GET for a key no peer holds, in the topologies JOINs  *)
(* build; call counts the times the GET has been forwarded.                *)
(***************************************************************************)
MaxForwardOps == 3
MaxHops == 4

GetMsgs(n) == {m \in DataMsgs(n) : m.type = "GET"}
GetInFlight == \E m \in BagToSet(msgs) : m.type = "GET"

InitForward ==
  /\ proc = [p \in Peers |-> "running"]
  /\ successor = [p \in Peers |-> InitSuccessor(p)]
  /\ predecessor = [p \in Peers |-> InitPredecessor(p)]
  /\ hbTicks = [p \in Peers |-> 0]
  /\ maint = [p \in Peers |-> TRUE]
  /\ store = [p \in Peers |-> [k \in Keys |-> NoValue]]
  /\ msgs = EmptyBag
  /\ printed = [p \in Peers |-> {}]
  /\ joined = [p \in Peers |-> "-"]
  /\ ops = 0
  /\ call = [fn |-> "forward", hops |-> 0]

\* The GET handler, the forwards of the GET counted.
CountedGET(n, m) ==
  /\ call.hops < MaxHops
  /\ GetHandler(n, m)
  /\ call' = [call EXCEPT !.hops = IF GetForwards(n, m) THEN @ + 1 ELSE @]

NextForward ==
  \/ \E n \in Peers : \E m \in BagToSet(msgs) : HandleJOIN(n, m)
  \/ \E n \in Peers : \E m \in BagToSet(msgs) : HandleUPDATE(n, m)
  \/ \E n \in Peers : \E m \in BagToSet(msgs) : CountedGET(n, m)
  \/ ops < MaxForwardOps /\ \E n \in Peers : \E m \in JoinMsgs(n) : External(n, m)
  \/ ops < MaxForwardOps /\ ~GetInFlight /\ call.hops = 0
       /\ \E n \in Peers, k \in Keys : ConsoleGET(n, k)
  \/ ops < MaxForwardOps /\ ~GetInFlight /\ call.hops = 0
       /\ \E n \in Peers : \E m \in GetMsgs(n) : External(n, m)

SpecForward == InitForward /\ [][NextForward]_vars

(***************************************************************************)
(* The reads of overlay.successor in one iteration of the maintenance      *)
(* loop, taken one at a time: the threads of the accepted connections run  *)
(* between them and no lock is held.  call holds the position of the loop  *)
(* and what it has read.                                                   *)
(***************************************************************************)
MaxSnapshotOps == 2

InitSnapshot ==
  /\ proc = [p \in Peers |-> "running"]
  /\ successor = [p \in Peers |-> InitSuccessor(p)]
  /\ predecessor = [p \in Peers |-> InitPredecessor(p)]
  /\ hbTicks = [p \in Peers |-> 0]
  /\ maint = [p \in Peers |-> TRUE]
  /\ store = [p \in Peers |-> [k \in Keys |-> NoValue]]
  /\ msgs = EmptyBag
  /\ printed = [p \in Peers |-> {}]
  /\ joined = [p \in Peers |-> "-"]
  /\ ops = 0
  /\ call = [fn |-> "tareas_mantenimiento", pc |-> "sleep"]

\* if overlay.successor["id"] != overlay.node_id: the heartbeat is built.
LoopReadsId(n) ==
  /\ call.pc = "sleep"
  /\ successor[n].id # node_id(n)
  /\ call' = [fn |-> "tareas_mantenimiento", pc |-> "id_read", peer |-> n,
              id |-> successor[n].id, held |-> {successor[n]}]
  /\ UNCHANGED <<proc, successor, predecessor, hbTicks, maint, store, msgs, printed, joined, ops>>

\* overlay.successor["ip"], the first argument of enviar_mensaje.
LoopReadsIp ==
  /\ call.pc = "id_read"
  /\ call' = [fn |-> "tareas_mantenimiento", pc |-> "ip_read", peer |-> call.peer,
              id |-> call.id, ip |-> successor[call.peer].ip,
              held |-> call.held \cup {successor[call.peer]}]
  /\ UNCHANGED <<proc, successor, predecessor, hbTicks, maint, store, msgs, printed, joined, ops>>

\* overlay.successor["port"], the second argument, and the call of
\* enviar_mensaje with the address read.
LoopReadsPortAndSends ==
  /\ call.pc = "ip_read"
  /\ LET n == call.peer
         port == successor[n].port
         hb == Msg(call.ip, port, "HEARTBEAT", str(node_id(n)),
                   [ip |-> Ip[n], port |-> Port[n]])
     IN /\ call' = [fn |-> "tareas_mantenimiento", pc |-> "sent", peer |-> n,
                    id |-> call.id, ip |-> call.ip, port |-> port,
                    held |-> call.held \cup {successor[n]}]
        /\ msgs' = IF enviar_mensaje(call.ip, port) = "raise" THEN msgs
                   ELSE Put(msgs, hb)
  /\ UNCHANGED <<proc, successor, predecessor, hbTicks, maint, store, printed, joined, ops>>

NextSnapshot ==
  \/ \E n \in Peers : \E m \in BagToSet(msgs) : HandleJOIN(n, m)
  \/ \E n \in Peers : \E m \in BagToSet(msgs) : HandleUPDATE(n, m)
  \/ \E n \in Peers : \E m \in BagToSet(msgs) : HandleHEARTBEAT(n, m)
  \/ \E n \in Peers : LoopReadsId(n)
  \/ LoopReadsIp
  \/ LoopReadsPortAndSends
  \/ ops < MaxSnapshotOps /\ \E n \in Peers : \E m \in JoinMsgs(n) : External(n, m)

SpecSnapshot == InitSnapshot /\ [][NextSnapshot]_vars

(***************************************************************************)
(* One maintenance loop statement by statement, interleaved with the       *)
(* threads of the accepted connections: the heartbeat send, the call of    *)
(* handle_successor_failure, the predecessor test and the assignment of    *)
(* None are separate steps, and no lock is held between them.              *)
(***************************************************************************)
MaxTickOps == 2

InitTick ==
  /\ proc = [p \in Peers |-> "running"]
  /\ successor = [p \in Peers |-> InitSuccessor(p)]
  /\ predecessor = [p \in Peers |-> InitPredecessor(p)]
  /\ hbTicks = [p \in Peers |-> 0]
  /\ maint = [p \in Peers |-> TRUE]
  /\ store = [p \in Peers |-> [k \in Keys |-> NoValue]]
  /\ msgs = EmptyBag
  /\ printed = [p \in Peers |-> {}]
  /\ joined = [p \in Peers |-> "-"]
  /\ ops = 0
  /\ call = [fn |-> "tareas_mantenimiento", pc |-> "sleep", peer |-> "-",
             sent_to |-> None, tested |-> None]

\* time.sleep(5), the test of the successor and the heartbeat send; sent_to is
\* the successor the heartbeat was sent to.
TickSends(n) ==
  /\ call.pc = "sleep" /\ call.peer \in {"-", n}
  /\ Alive(n) /\ maint[n]
  /\ hbTicks' = [hbTicks EXCEPT ![n] = IF PredecessorTimedOut(@) THEN @ ELSE @ + 1]
  /\ LET s == successor[n]
         hb == Msg(s.ip, s.port, "HEARTBEAT", str(node_id(n)),
                   [ip |-> Ip[n], port |-> Port[n]])
     IN IF s.id = node_id(n)
        THEN /\ call' = [call EXCEPT !.pc = "test", !.peer = n, !.sent_to = None]
             /\ UNCHANGED <<maint, msgs>>
        ELSE IF enviar_mensaje(s.ip, s.port) = "raise"
        THEN /\ call' = [call EXCEPT !.pc = "ended", !.peer = n, !.sent_to = None]
             /\ maint' = [maint EXCEPT ![n] = FALSE]
             /\ UNCHANGED msgs
        ELSE /\ call' = [call EXCEPT
                           !.pc = IF Truthy(enviar_mensaje(s.ip, s.port))
                                  THEN "test" ELSE "failure",
                           !.peer = n, !.sent_to = s]
             /\ msgs' = Put(msgs, hb)
             /\ UNCHANGED maint
  /\ UNCHANGED <<proc, successor, predecessor, store, printed, joined, ops>>

\* overlay.handle_successor_failure()
TickHandlesFailure ==
  /\ call.pc = "failure"
  /\ successor' = [successor EXCEPT ![call.peer] = handle_successor_failure(call.peer, @)]
  /\ call' = [call EXCEPT !.pc = "test"]
  /\ UNCHANGED <<proc, predecessor, hbTicks, maint, store, msgs, printed, joined, ops>>

\* if overlay.predecessor and (time.time() - overlay.last_heartbeat > 15);
\* tested is the predecessor the condition was true of.
TickTestsTimeout ==
  /\ call.pc = "test"
  /\ call' = IF predecessor[call.peer] # None /\ PredecessorTimedOut(hbTicks[call.peer])
             THEN [call EXCEPT !.pc = "clear", !.tested = predecessor[call.peer]]
             ELSE [call EXCEPT !.pc = "sleep", !.tested = None]
  /\ UNCHANGED <<proc, successor, predecessor, hbTicks, maint, store, msgs, printed, joined, ops>>

\* overlay.predecessor = None
TickClears ==
  /\ call.pc = "clear"
  /\ predecessor' = [predecessor EXCEPT ![call.peer] = None]
  /\ call' = [call EXCEPT !.pc = "sleep"]
  /\ UNCHANGED <<proc, successor, hbTicks, maint, store, msgs, printed, joined, ops>>

\* The JOINs of the other peers that take n as their bootstrap.
PeerJoins(n) == {m \in JoinMsgs(n) : m.sender_id # str(node_id(n))}

NextTick ==
  \/ \E n \in Peers : \E m \in BagToSet(msgs) : HandleJOIN(n, m)
  \/ \E n \in Peers : \E m \in BagToSet(msgs) : HandleUPDATE(n, m)
  \/ \E n \in Peers : \E m \in BagToSet(msgs) : HandleHEARTBEAT(n, m)
  \/ \E n \in Peers : TickSends(n)
  \/ TickHandlesFailure
  \/ TickTestsTimeout
  \/ TickClears
  \/ ops < MaxTickOps /\ \E n \in Peers : \E m \in PeerJoins(n) : External(n, m)

SpecTick == InitTick /\ [][NextTick]_vars

(***************************************************************************)
(* Console PUTs in a stable ring of four peers: every peer's successor is  *)
(* the peer of the next id and its predecessor the peer of the previous    *)
(* id.  The threads of the accepted connections are scheduled fairly.      *)
(***************************************************************************)
MaxStableOps == 2

\* The peer that follows p in id order, cyclically.
NextOnRing(p) ==
  LET above == {q \in AllPeers : node_id(q) > node_id(p)}
      pool == IF above = {} THEN AllPeers ELSE above
  IN CHOOSE q \in pool : \A r \in pool : node_id(q) <= node_id(r)

\* The peer that precedes p in id order, cyclically.
PrevOnRing(p) == CHOOSE q \in AllPeers : NextOnRing(q) = p

InitStableRing ==
  /\ proc = [p \in AllPeers |-> "running"]
  /\ successor = [p \in AllPeers |-> SelfRef(NextOnRing(p))]
  /\ predecessor = [p \in AllPeers |-> SelfRef(PrevOnRing(p))]
  /\ hbTicks = [p \in AllPeers |-> 0]
  /\ maint = [p \in AllPeers |-> TRUE]
  /\ store = [p \in AllPeers |-> [k \in Keys |-> NoValue]]
  /\ msgs = EmptyBag
  /\ printed = [p \in AllPeers |-> {}]
  /\ joined = [p \in AllPeers |-> "-"]
  /\ ops = 0
  /\ call = NoCall

NextStableRing ==
  \/ \E n \in AllPeers : \E m \in BagToSet(msgs) : HandlePUT(n, m)
  \/ ops < MaxStableOps /\ \E n \in AllPeers, k \in Keys, v \in Values : ConsolePUT(n, k, v)

SpecStableRing ==
  /\ InitStableRing /\ [][NextStableRing]_vars
  /\ WF_vars(\E n \in AllPeers : \E m \in BagToSet(msgs) : HandlePUT(n, m))

(***************************************************************************)
(* Ageing of the predecessor: maintenance loops that run for ever in a     *)
(* ring grown by JOINs, of which a peer may be killed.  The threads of the *)
(* maintenance loops and of the accepted connections are scheduled fairly. *)
(***************************************************************************)
\* JOINs and kills of a run of SpecAging.
MaxAgingOps == 2
\* Messages accepted by live peers and not yet handled, above which the
\* maintenance loops wait.
MaxInFlight == 1

\* Messages in flight to peers that are up.
InFlight ==
  {m \in BagToSet(msgs) : Listening(m.to.ip, m.to.port)}

TickAging(n) ==
  /\ Cardinality(InFlight) < MaxInFlight
  /\ tareas_mantenimiento(n)
  /\ UNCHANGED ops

NextAging ==
  \/ \E n \in Peers : \E m \in BagToSet(msgs) : HandleJOIN(n, m)
  \/ \E n \in Peers : \E m \in BagToSet(msgs) : HandleHEARTBEAT(n, m)
  \/ \E n \in Peers : \E m \in BagToSet(msgs) : HandleUPDATE(n, m)
  \/ \E n \in Peers : TickAging(n)
  \/ ops < MaxAgingOps /\ \E n \in Peers : Crash(n)
  \/ ops < MaxAgingOps /\ \E n \in Peers : \E m \in JoinMsgs(n) : External(n, m)

FairAging ==
  /\ \A n \in Peers : WF_vars(TickAging(n))
  /\ WF_vars(\E n \in Peers : \E m \in BagToSet(msgs) : HandleJOIN(n, m))
  /\ WF_vars(\E n \in Peers : \E m \in BagToSet(msgs) : HandleHEARTBEAT(n, m))
  /\ WF_vars(\E n \in Peers : \E m \in BagToSet(msgs) : HandleUPDATE(n, m))

SpecAging == Init /\ [][NextAging]_vars /\ FairAging

(***************************************************************************)
(* Inbound traffic: what any TCP client may write to the socket of a peer, *)
(* complete envelopes of the six types and defective payloads, and what    *)
(* the server and the dispatcher do with it.                               *)
(***************************************************************************)
\* Events of a run of SpecInbound.
MaxInboundOps == 2

\* The mapping d without its member f.
Drop(d, f) == [g \in DOMAIN d \ {f} |-> d[g]]

HeartbeatMsgs(n) ==
  { Msg(Ip[n], Port[n], "HEARTBEAT", str(node_id(j)), [ip |-> Ip[j], port |-> Port[j]])
      : j \in Peers }

UpdateMsgs(n) ==
  { Msg(Ip[n], Port[n], "UPDATE", str(node_id(j)),
        [role |-> r, ip |-> Ip[j], port |-> Port[j]])
      : j \in Peers, r \in {"predecessor", "successor"} }

\* UPDATEs that carry the address of a peer other than their sender, as a
\* peer that hands its neighbours over to each other writes them.
RelayedUpdateMsgs(n) ==
  { Msg(Ip[n], Port[n], "UPDATE", str(node_id(j)),
        [role |-> r, ip |-> Ip[c], port |-> Port[c]])
      : j \in Peers \ {n}, c \in Peers \ {n}, r \in {"predecessor", "successor"} }

ResultMsgs(n) ==
  { Msg(Ip[n], Port[n], "RESULT", "ext", [key |-> "k1", value |-> "v1"]) }

\* One complete envelope of each type from every other peer, the GETs naming
\* every requester.
Samples(n) ==
  { m \in JoinMsgs(n) \cup HeartbeatMsgs(n) \cup UpdateMsgs(n) :
      m.sender_id # str(node_id(n)) /\ ("role" \in DOMAIN m.data => m.data.role = "predecessor") }
  \cup ResultMsgs(n)
  \cup { m \in DataMsgs(n) : m.data.key = "k1" /\ (m.type = "PUT" => m.data.value = "v1") }

\* Text that is not JSON; envelopes without one of their four members or
\* with a type outside the enum; envelopes whose data lacks one member.
BadMsgs(n) ==
  { [to |-> [ip |-> Ip[n], port |-> Port[n]], raw |-> "esto_no_es_json"] }
  \cup { Drop(m, f) : m \in ResultMsgs(n), f \in EnvelopeFields }
  \cup { [m EXCEPT !.type = "PING"] : m \in ResultMsgs(n) }
  \cup UNION { { [m EXCEPT !.data = Drop(m.data, f)] : f \in DOMAIN m.data }
                 : m \in Samples(n) }

InboundMsgs(n) ==
  JoinMsgs(n) \cup DataMsgs(n) \cup HeartbeatMsgs(n) \cup UpdateMsgs(n)
  \cup RelayedUpdateMsgs(n)
  \cup ResultMsgs(n) \cup BadMsgs(n)

NextInbound ==
  \/ \E n \in Peers : \E m \in BagToSet(msgs) : HandleJOIN(n, m)
  \/ \E n \in Peers : \E m \in BagToSet(msgs) : HandlePUT(n, m)
  \/ \E n \in Peers : \E m \in BagToSet(msgs) : HandleGET(n, m)
  \/ \E n \in Peers : \E m \in BagToSet(msgs) : HandleHEARTBEAT(n, m)
  \/ \E n \in Peers : \E m \in BagToSet(msgs) : HandleUPDATE(n, m)
  \/ \E n \in Peers : \E m \in BagToSet(msgs) : HandleRESULT(n, m)
  \/ \E n \in Peers : \E m \in BagToSet(msgs) : RejectPayload(n, m)
  \/ \E n \in Peers : \E m \in BagToSet(msgs) : HandlerRaises(n, m)
  \/ ops < MaxInboundOps /\ \E n \in Peers : \E m \in InboundMsgs(n) : External(n, m)

SpecInbound == Init /\ [][NextInbound]_vars

(***************************************************************************)
(* Calls of the pure functions of the overlay manager on arguments drawn   *)
(* from the whole identifier ring.                                         *)
(***************************************************************************)
RingIds == 0..(RingSize - 1)

\* The printed form of a Python bool, as the result of a call is recorded.
Repr(b) == IF b THEN "True" ELSE "False"

\* A predecessor reference with identifier i (the address is not read).
PredWithId(i) == PeerRef(i, "h", 1)

IsResponsibleCalls ==
  [fn : {"is_responsible"},
   pred : {None} \cup {PredWithId(i) : i \in RingIds},
   n_id : RingIds, target_id : RingIds, out : {"pending"}]

\* om.notify(c, "n", 2) on an overlay with the given node_id and predecessor.
NotifyCalls ==
  [fn : {"notify"},
   pred : {None} \cup {PredWithId(i) : i \in RingIds},
   n_id : RingIds, c : RingIds, out : {"pending"}, after : {None}]

\* f restricted to the members named in S.
Restrict(f, S) == [g \in S \cap DOMAIN f |-> f[g]]

\* A data mapping with every member a message of the type carries.
SampleData(t) ==
  CASE t \in {"JOIN", "HEARTBEAT"} -> [ip |-> "h1", port |-> 8001]
    [] t = "PUT" -> [key |-> "k1", value |-> "v1"]
    [] t = "GET" -> [key |-> "k1", requester_ip |-> "h1", requester_port |-> 8001]
    [] t = "RESULT" -> [key |-> "k1", value |-> "v1"]
    [] t = "UPDATE" -> [role |-> "predecessor", ip |-> "h1", port |-> 8001]
    [] OTHER -> [key |-> "k1"]

\* JSON texts handed to deserialize_message: text that is not JSON, and the
\* objects with any subset of the envelope's members, a type of the enum or
\* "PING", and any subset of the members of the type's data.
JsonTexts ==
  { [raw |-> "not a json"] }
  \cup UNION { { Restrict([type |-> t, sender_id |-> "x",
                            data |-> Restrict(SampleData(t), D), timestamp |-> 1], E)
                   : D \in SUBSET DOMAIN SampleData(t), E \in SUBSET EnvelopeFields }
                 : t \in MessageTypes \cup {"PING"} }

DeserializeCalls ==
  [fn : {"deserialize_message"}, json_str : JsonTexts, out : {"pending"},
   result : {None}]

\* The data mappings the peers build for a message of the type.
WellFormedData(t) ==
  CASE t \in {"JOIN", "HEARTBEAT"} -> { [ip |-> Ip[j], port |-> Port[j]] : j \in Peers }
    [] t = "PUT" ->
         { [key |-> k, value |-> v] : k \in Keys, v \in Values }
         \cup { [key |-> k, value |-> v, is_replica |-> TRUE] : k \in Keys, v \in Values }
    [] t = "GET" ->
         { [key |-> k, requester_ip |-> Ip[j], requester_port |-> Port[j]]
             : k \in Keys, j \in Peers }
    [] t = "RESULT" -> { [key |-> k, value |-> v] : k \in Keys, v \in Values }
    [] t = "UPDATE" ->
         { [role |-> r, ip |-> Ip[j], port |-> Port[j]]
             : r \in {"predecessor", "successor"}, j \in Peers }

Timestamps == {0, 1}

\* The well-formed envelopes of the six types.
WellFormedMessages ==
  UNION { { Message(Member(t), sid, d, ts)
              : sid \in {"7", "ext"}, d \in WellFormedData(t), ts \in Timestamps }
            : t \in MessageTypes }

RoundTripCalls ==
  [fn : {"round_trip"}, e : WellFormedMessages, out : {"pending"}, result : {None}]

\* An address where no peer listens.
ClosedPort == 9999

SendCalls ==
  [fn : {"enviar_mensaje"}, host : {Ip[j] : j \in Peers},
   puerto : {Port[j] : j \in Peers} \cup {ClosedPort}, out : {"pending"}]

\* Overlays handed to process_stabilize_response: any node id, any successor
\* id (the node itself included), with or without a predecessor, and any
\* candidate id or None.
StabilizeCalls ==
  [fn : {"process_stabilize_response"}, n_id : RingIds, s_id : RingIds,
   pred : {None, PredWithId(0)}, c : RingIds \cup {None.id},
   out : {"pending"}, after : {None}, pred_after : {None}]

InitCalls ==
  /\ proc = [p \in Peers |-> "running"]
  /\ successor = [p \in Peers |-> InitSuccessor(p)]
  /\ predecessor = [p \in Peers |-> InitPredecessor(p)]
  /\ hbTicks = [p \in Peers |-> 0]
  /\ maint = [p \in Peers |-> TRUE]
  /\ store = [p \in Peers |-> [k \in Keys |-> NoValue]]
  /\ msgs = EmptyBag
  /\ printed = [p \in Peers |-> {}]
  /\ joined = [p \in Peers |-> "-"]
  /\ ops = 0
  /\ call \in IsResponsibleCalls \cup NotifyCalls \cup DeserializeCalls
               \cup RoundTripCalls \cup SendCalls \cup StabilizeCalls

\* om.is_responsible(target_id) on an overlay with the given node_id and predecessor.
CallIsResponsible ==
  /\ call.fn = "is_responsible" /\ call.out = "pending"
  /\ call' = [call EXCEPT !.out = Repr(is_responsible(call.pred, call.n_id, call.target_id))]
  /\ UNCHANGED <<proc, successor, predecessor, hbTicks, maint, store, msgs, printed, joined, ops>>

\* om.notify(c, ip, port): the bool returned and self.predecessor afterwards.
CallNotify ==
  /\ call.fn = "notify" /\ call.out = "pending"
  /\ call' = [call EXCEPT
                !.out = Repr(notify_returns(call.pred, call.n_id, call.c)),
                !.after = notify(call.pred, call.n_id, call.c, "n", 2)]
  /\ UNCHANGED <<proc, successor, predecessor, hbTicks, maint, store, msgs, printed, joined, ops>>

\* deserialize_message(json_str): the Message returned or the error raised.
CallDeserialize ==
  /\ call.fn = "deserialize_message" /\ call.out = "pending"
  /\ call' = [call EXCEPT !.out = "done",
                          !.result = deserialize_message(call.json_str)]
  /\ UNCHANGED <<proc, successor, predecessor, hbTicks, maint, store, msgs, printed, joined, ops>>

\* deserialize_message(serialize_message(e))
CallRoundTrip ==
  /\ call.fn = "round_trip" /\ call.out = "pending"
  /\ call' = [call EXCEPT !.out = "done",
                          !.result = deserialize_message(serialize_message(call.e))]
  /\ UNCHANGED <<proc, successor, predecessor, hbTicks, maint, store, msgs, printed, joined, ops>>

\* enviar_mensaje(host, puerto, json): what the call returns, or "raise".
CallEnviarMensaje ==
  /\ call.fn = "enviar_mensaje" /\ call.out = "pending"
  /\ call' = [call EXCEPT !.out = enviar_mensaje(call.host, call.puerto)]
  /\ UNCHANGED <<proc, successor, predecessor, hbTicks, maint, store, msgs, printed, joined, ops>>

\* om.process_stabilize_response(c, ip, port): self.successor and
\* self.predecessor afterwards; the method does not assign the predecessor.
CallStabilize ==
  /\ call.fn = "process_stabilize_response" /\ call.out = "pending"
  /\ call' = [call EXCEPT
                !.out = "done",
                !.after = process_stabilize_response(PeerRef(call.s_id, "h", 1),
                                                     call.n_id, call.c, "n", 2),
                !.pred_after = call.pred]
  /\ UNCHANGED <<proc, successor, predecessor, hbTicks, maint, store, msgs, printed, joined, ops>>

NextCalls ==
  \/ CallStabilize
  \/ CallIsResponsible
  \/ CallNotify
  \/ CallDeserialize
  \/ CallRoundTrip
  \/ CallEnviarMensaje

SpecCalls == InitCalls /\ [][NextCalls]_vars

(***************************************************************************)
(* The in-memory ring of src/storage.py: a list of Node objects sorted by  *)
(* node_id, built by add_node and written by put_value.  The variable call *)
(* holds the list and the fields of the nodes.                             *)
(***************************************************************************)
MaxRingOps == 5
MaxReplication == 3
MaxTtl == 3
MaxBeatOps == 3
MaxTime == 2
MaxTimeout == 1

\* The nodes, each named by the f"{ip}:{port}" its node_id is hashed from.
RingNodes == {"127.0.0.1:5000", "127.0.0.1:5001", "127.0.0.1:5002", "127.0.0.1:5003"}

\* Keys below every node_id, equal to one and above all of them.
RingKeys == {"k5", "127.0.0.1:5001", "alumno1"}
RingValues == {"nota=6.0", "nota=7.0"}

\* storage.calcular_hash of the strings above: the leading 16 bits of the
\* SHA-1 digest, which order the strings as the 32 bits the code keeps do.
CalcularHashTable ==
  ("127.0.0.1:5000" :> 46688) @@ ("127.0.0.1:5001" :> 34669) @@
  ("127.0.0.1:5002" :> 30815) @@ ("127.0.0.1:5003" :> 18839) @@
  ("k5" :> 17508) @@ ("alumno1" :> 53750)

calcular_hash(value) == CalcularHashTable[value]

\* Node.__init__: self.node_id
ring_node_id(node) == calcular_hash(node)

\* list.insert(index, x) and list.index(x), indices counted from 0.
Insert(list, index, x) ==
  SubSeq(list, 1, index) \o <<x>> \o SubSeq(list, index + 1, Len(list))
Index(list, x) == (CHOOSE i \in 1..Len(list) : list[i] = x /\ \A j \in 1..(i - 1) : list[j] # x) - 1
At(list, index) == list[(index % Len(list)) + 1]

\* add_node: the while loop that finds the insertion point.
RECURSIVE InsertionPoint(_, _, _)
InsertionPoint(ring, node, index) ==
  IF index < Len(ring) /\ ring_node_id(ring[index + 1]) < ring_node_id(node)
  THEN InsertionPoint(ring, node, index + 1)
  ELSE index

\* add_node that leaves the pointers of the new node's neighbours as they were.
add_node_neighbours_kept(r, node) ==
  IF r.ring = <<>>
  THEN [r EXCEPT !.ring = <<node>>,
                 !.successor[node] = node, !.predecessor[node] = node]
  ELSE LET index == InsertionPoint(r.ring, node, 0)
           ring == Insert(r.ring, index, node)
           succ == At(ring, index + 1)
           pred == At(ring, index - 1)
       IN [r EXCEPT !.ring = ring,
                    !.successor[node] = succ,
                    !.predecessor[node] = pred]

\* storage.add_node on the ring r: the list and the pointers afterwards.
add_node(r, node) ==
  IF r.ring = <<>>
  THEN [r EXCEPT !.ring = <<node>>,
                 !.successor[node] = node, !.predecessor[node] = node]
  ELSE LET index == InsertionPoint(r.ring, node, 0)
           ring == Insert(r.ring, index, node)
           succ == At(ring, index + 1)
           pred == At(ring, index - 1)
           s1 == [r.successor EXCEPT ![node] = succ]
           p1 == [r.predecessor EXCEPT ![node] = pred]
       IN [r EXCEPT !.ring = ring,
                    !.successor = [s1 EXCEPT ![pred] = node],
                    !.predecessor = [p1 EXCEPT ![succ] = node]]

\* storage.find_successor: the first node whose node_id is at least key_id,
\* the first node of the list when there is none.
RECURSIVE FirstAtLeast(_, _, _)
FirstAtLeast(ring, key_id, i) ==
  IF i > Len(ring) THEN ring[1]
  ELSE IF key_id <= ring_node_id(ring[i]) THEN ring[i]
  ELSE FirstAtLeast(ring, key_id, i + 1)

find_successor(ring, key_id) == FirstAtLeast(ring, key_id, 1)

\* put_value: the loop `for i in range(total)` from i on.
RECURSIVE StoreOn(_, _, _, _, _, _, _)
StoreOn(ring, data, key, value, index, i, total) ==
  IF i >= total THEN data
  ELSE LET target == At(ring, index + i)
       IN StoreOn(ring, [data EXCEPT ![target][key] = value],
                  key, value, index, i + 1, total)

Min(a, b) == IF a < b THEN a ELSE b

\* Mutant of put_value: the copies start at the first node of the list.
put_value_from_first(ring, data, key, value, replication) ==
  IF replication < 1 \/ ring = <<>>
  THEN data
  ELSE StoreOn(ring, data, key, value, 0, 0, Min(replication, Len(ring)))

\* storage.put_value: the data of the nodes afterwards; unchanged when the
\* call raises ValueError (replication < 1, empty ring).
put_value(ring, data, key, value, replication) ==
  IF replication < 1 \/ ring = <<>>
  THEN data
  ELSE LET key_id == calcular_hash(key)
           primary == find_successor(ring, key_id)
           index == Index(ring, primary)
           total == Min(replication, Len(ring))
       IN StoreOn(ring, data, key, value, index, 0, total)

\* storage.get_value: the walk `for i in range(len(ring))` from i on.
RECURSIVE FirstHolding(_, _, _, _, _)
FirstHolding(ring, data, key, index, i) ==
  IF i >= Len(ring) THEN NoValue
  ELSE LET node == At(ring, index + i)
       IN IF data[node][key] # NoValue THEN data[node][key]
          ELSE FirstHolding(ring, data, key, index, i + 1)

\* Mutant of get_value: only the primary node is read.
get_value_primary_only(ring, data, key) ==
  IF ring = <<>> THEN NoValue
  ELSE data[find_successor(ring, calcular_hash(key))][key]

\* storage.get_value: the value returned, NoValue for None.
get_value(ring, data, key) ==
  IF ring = <<>> THEN NoValue
  ELSE LET key_id == calcular_hash(key)
           primary == find_successor(ring, key_id)
           index == Index(ring, primary)
       IN FirstHolding(ring, data, key, index, 0)

\* What _search returns and the set visited it leaves behind.
Searched(result, visited) == [result |-> result, visited |-> visited]

\* flood_search._search(node, remaining) on the ring r, the closure's set
\* visited being as given.
RECURSIVE search(_, _, _, _, _)
search(r, key, node, remaining, visited) ==
  IF r.data[node][key] # NoValue THEN Searched(r.data[node][key], visited)
  ELSE IF remaining = 0 THEN Searched(NoValue, visited)
  ELSE LET v1 == visited \cup {node}
           s == r.successor[node]
           a == IF s \notin v1
                THEN search(r, key, s, remaining - 1, v1)
                ELSE Searched(NoValue, v1)
       IN IF a.result # NoValue THEN a
          ELSE LET p == r.predecessor[node]
               IN IF p \notin a.visited
                  THEN search(r, key, p, remaining - 1, a.visited)
                  ELSE Searched(NoValue, a.visited)

\* Mutant of flood_search: a node reached with no hops left is not read.
flood_search_stops_early(r, start, key, ttl) ==
  IF ttl < 0 THEN "ValueError"
  ELSE IF ttl = 0 THEN r.data[start][key]
  ELSE search(r, key, start, ttl - 1, {}).result

\* storage.flood_search: the value returned, NoValue for None, "ValueError"
\* when the call raises.
flood_search(r, start, key, ttl) ==
  IF ttl < 0 THEN "ValueError"
  ELSE search(r, key, start, ttl, {}).result

\* The default None of a time argument, for which the function reads
\* time.time(); the times of a run are not negative.
NoTime == -1

\* Node.receive_heartbeat: self._last_heartbeat afterwards, a dict from
\* senders to times.
receive_heartbeat(last_heartbeat, sender, timestamp, clock) ==
  LET t == IF timestamp = NoTime THEN clock ELSE timestamp
  IN (sender :> t) @@ last_heartbeat

\* Mutant of check_failed_neighbours: a neighbour is failed from the moment
\* the timeout has elapsed.
check_failed_neighbours_at_timeout(last_heartbeat, timeout, current_time, clock) ==
  LET now == IF current_time = NoTime THEN clock ELSE current_time
  IN {neighbour \in DOMAIN last_heartbeat : now - last_heartbeat[neighbour] >= timeout}

\* Node.check_failed_neighbours: the neighbours in the list returned.
check_failed_neighbours(last_heartbeat, timeout, current_time, clock) ==
  LET now == IF current_time = NoTime THEN clock ELSE current_time
  IN {neighbour \in DOMAIN last_heartbeat : now - last_heartbeat[neighbour] > timeout}

\* No call whose result is under observation.
NoOut == [fn |-> "-"]

\* The put_value call returns normally.
PutReturns(ring, replication) == replication >= 1 /\ ring # <<>>

InitRing ==
  /\ proc = [p \in Peers |-> "running"]
  /\ successor = [p \in Peers |-> InitSuccessor(p)]
  /\ predecessor = [p \in Peers |-> InitPredecessor(p)]
  /\ hbTicks = [p \in Peers |-> 0]
  /\ maint = [p \in Peers |-> TRUE]
  /\ store = [p \in Peers |-> [k \in Keys |-> NoValue]]
  /\ msgs = EmptyBag
  /\ printed = [p \in Peers |-> {}]
  /\ joined = [p \in Peers |-> "-"]
  /\ ops = 0
  /\ call = [fn |-> "ring", ring |-> <<>>,
             successor |-> [n \in RingNodes |-> n],
             predecessor |-> [n \in RingNodes |-> n],
             data |-> [n \in RingNodes |-> [k \in RingKeys |-> NoValue]],
             last_heartbeat |-> [n \in RingNodes |-> <<>>],
             clock |-> 0,
             last_put |-> [k \in RingKeys |-> NoValue],
             out |-> NoOut]

\* node = Node(ip, port); add_node(ring, node)
RingAddNode(node) ==
  /\ ops < MaxRingOps
  /\ \A i \in 1..Len(call.ring) : call.ring[i] # node
  /\ call' = [add_node(call, node) EXCEPT !.out = NoOut]
  /\ ops' = ops + 1
  /\ UNCHANGED <<proc, successor, predecessor, hbTicks, maint, store, msgs, printed, joined>>

\* put_value(ring, key, value, replication)
RingPutValue(key, value, replication) ==
  /\ ops < MaxRingOps
  /\ call' = [call EXCEPT
                !.data = put_value(call.ring, call.data, key, value, replication),
                !.last_put[key] = IF PutReturns(call.ring, replication) THEN value ELSE @,
                !.out = NoOut]
  /\ ops' = ops + 1
  /\ UNCHANGED <<proc, successor, predecessor, hbTicks, maint, store, msgs, printed, joined>>

\* get_value(ring, key)
RingGetValue(key) ==
  /\ ops < MaxRingOps
  /\ call' = [call EXCEPT !.out = [fn |-> "get_value", key |-> key,
                                    result |-> get_value(call.ring, call.data, key)]]
  /\ ops' = ops + 1
  /\ UNCHANGED <<proc, successor, predecessor, hbTicks, maint, store, msgs, printed, joined>>

\* flood_search(start, key, ttl); the call writes nothing to the ring.
RingFloodSearch(start, key, ttl) ==
  /\ call' = [call EXCEPT !.out = [fn |-> "flood_search", start |-> start,
                                    key |-> key, ttl |-> ttl,
                                    result |-> flood_search(call, start, key, ttl)]]
  /\ UNCHANGED <<proc, successor, predecessor, hbTicks, maint, store, msgs, printed, joined, ops>>

NextRing ==
  \/ \E node \in RingNodes : RingAddNode(node)
  \/ \E key \in RingKeys, value \in RingValues, replication \in 0..MaxReplication :
       RingPutValue(key, value, replication)
  \/ \E key \in RingKeys : RingGetValue(key)

SpecRing == InitRing /\ [][NextRing]_vars

\* Heartbeats recorded by a node and its checks of them, as the clock
\* advances.
Observer == "127.0.0.1:5000"
Times == 0..MaxTime

\* node.receive_heartbeat(sender, timestamp)
RingReceiveHeartbeat(node, sender, timestamp) ==
  /\ ops < MaxBeatOps
  /\ call' = [call EXCEPT
                !.last_heartbeat[node] =
                   receive_heartbeat(@, sender, timestamp, call.clock),
                !.out = NoOut]
  /\ ops' = ops + 1
  /\ UNCHANGED <<proc, successor, predecessor, hbTicks, maint, store, msgs, printed, joined>>

\* node.check_failed_neighbours(timeout, current_time); the call writes
\* nothing to the node.
RingCheckFailed(node, timeout, current_time) ==
  /\ call' = [call EXCEPT
                !.out = [fn |-> "check_failed_neighbours", node |-> node,
                         timeout |-> timeout, current_time |-> current_time,
                         result |-> check_failed_neighbours(call.last_heartbeat[node],
                                       timeout, current_time, call.clock)]]
  /\ UNCHANGED <<proc, successor, predecessor, hbTicks, maint, store, msgs, printed, joined, ops>>

\* time.time() advances.
RingClockTick ==
  /\ call.clock < MaxTime
  /\ call' = [call EXCEPT !.clock = @ + 1, !.out = NoOut]
  /\ UNCHANGED <<proc, successor, predecessor, hbTicks, maint, store, msgs, printed, joined, ops>>

NextHeartbeat ==
  \/ \E sender \in RingNodes, timestamp \in Times \cup {NoTime} :
       RingReceiveHeartbeat(Observer, sender, timestamp)
  \/ \E timeout \in 0..MaxTimeout, current_time \in Times \cup {NoTime} :
       RingCheckFailed(Observer, timeout, current_time)
  \/ RingClockTick

SpecHeartbeat == InitRing /\ [][NextHeartbeat]_vars

\* Flooded searches on the rings add_node builds, from every node and with
\* every ttl from -1 up, for keys stored with one or two copies.
FloodKeys == {"k5", "alumno1"}

NextFlood ==
  \/ \E node \in RingNodes : RingAddNode(node)
  \/ \E key \in FloodKeys, replication \in 1..2 :
       RingPutValue(key, "nota=6.0", replication)
  \/ \E start \in RingNodes, key \in FloodKeys, ttl \in (-1)..MaxTtl :
       RingFloodSearch(start, key, ttl)

SpecFlood == InitRing /\ [][NextFlood]_vars

(***************************************************************************)
(* Properties.                                                             *)
(***************************************************************************)
\* r is a peer reference: an identifier of the ring with an address.
IsPeerRef(r) ==
  /\ r # None
  /\ r.id \in RingIds
  /\ \E q \in Peers : r.ip = Ip[q]
  /\ \E q \in Peers : r.port = Port[q]

\* C1: in every reachable state the successor of every peer is a peer
\* reference and never None; at startup (before any event) it is the peer
\* itself.
C1_SuccessorNeverNone ==
  \A p \in Peers :
    /\ IsPeerRef(successor[p])
    /\ (ops = 0 => successor[p] = SelfRef(p))

\* A peer whose successor was another peer and reverted to itself in a
\* maintenance tick, while it keeps the predecessor a JOIN gave it.
C1_Witness ==
  \E p \in Peers :
    /\ hbTicks[p] > 0
    /\ successor[p] = SelfRef(p)
    /\ predecessor[p] # None /\ predecessor[p].id # node_id(p)

\* The cyclic half-open arc (a, b]: the positions met walking the ring
\* clockwise from a + 1 to b; the whole ring when a = b.
Arc(a, b) ==
  LET d == (b - a) % RingSize
      len == IF d = 0 THEN RingSize ELSE d
  IN {(a + i) % RingSize : i \in 1..len}

\* C6: is_responsible(x) on a peer n with predecessor p is true exactly when
\* x lies in the cyclic half-open arc (p.id, n.id] (for p.id >= n.id: x > p.id
\* or x <= n.id), and true for every x when there is no predecessor.
C6_IsResponsibleArc ==
  (call.fn = "is_responsible" /\ call.out # "pending") =>
    /\ call.out = Repr(IF call.pred = None
                       THEN TRUE
                       ELSE call.target_id \in Arc(call.pred.id, call.n_id))
    /\ (call.pred # None /\ call.pred.id < call.n_id) =>
         call.out = Repr(call.pred.id < call.target_id /\ call.target_id <= call.n_id)
    /\ (call.pred # None /\ call.pred.id >= call.n_id) =>
         call.out = Repr(call.target_id > call.pred.id \/ call.target_id <= call.n_id)

\* A call answered True on the wrap-around part of the arc, beyond the
\* predecessor's identifier.
C6_Witness ==
  /\ call.fn = "is_responsible" /\ call.out = "True"
  /\ call.pred # None
  /\ call.pred.id > call.n_id
  /\ call.target_id > call.pred.id

\* C7 as stated: for every peer with a predecessor, is_responsible(self.id) is
\* true and is_responsible(predecessor.id) is false.
C7_AsStated ==
  \A p \in Peers :
    predecessor[p] # None =>
      /\ is_responsible(predecessor[p], node_id(p), node_id(p))
      /\ ~is_responsible(predecessor[p], node_id(p), predecessor[p].id)

\* C7 amended: for every peer with a predecessor, is_responsible(self.id) is
\* true; is_responsible(predecessor.id) is false when the predecessor's
\* identifier differs from the peer's own, and when the predecessor reference
\* names the peer itself the peer is responsible for every identifier.
C7_ArcBounds ==
  \A p \in Peers :
    predecessor[p] # None =>
      /\ is_responsible(predecessor[p], node_id(p), node_id(p))
      /\ predecessor[p].id # node_id(p) =>
           ~is_responsible(predecessor[p], node_id(p), predecessor[p].id)
      /\ predecessor[p].id = node_id(p) =>
           \A x \in RingIds : is_responsible(predecessor[p], node_id(p), x)

\* Two peers with a predecessor: one whose predecessor names the peer itself,
\* one whose predecessor is another peer.
C7_Witness ==
  \E p, q \in Peers :
    /\ predecessor[p] # None /\ predecessor[p].id = node_id(p)
    /\ predecessor[q] # None /\ predecessor[q].id # node_id(q)

\* The address a reference points to.
Addr(r) == [ip |-> r.ip, port |-> r.port]

\* The PUT m carries the replica flag set.
FlaggedReplica(m) == "is_replica" \in DOMAIN m.data /\ m.data.is_replica = TRUE

\* What the PUT handler of n must do with the PUT m.
PutEffect(n, m) ==
  LET rest == Take(msgs, m)
      new == msgs' (-) rest
      s == successor[n]
  IN /\ store'[n][m.data.key] = m.data.value
     /\ \A r \in BagToSet(rest) : CopiesIn(r, msgs') >= CopiesIn(r, rest)
     /\ IF FlaggedReplica(m)
        THEN msgs' = rest
        ELSE IF s.id # node_id(n) /\ Listening(s.ip, s.port)
             THEN /\ BagCardinality(new) = 1
                  /\ \A r \in BagToSet(new) :
                       /\ r.type = "PUT" /\ r.to = Addr(s)
                       /\ r.data = [key |-> m.data.key, value |-> m.data.value,
                                    is_replica |-> TRUE]
             ELSE msgs' = rest

\* C4: a PUT without the replica flag handled by a peer whose successor is
\* another (listening) peer is stored on the receiver and produces exactly
\* one outbound message, a PUT of the same key and value flagged is_replica
\* and addressed to the successor; a PUT flagged is_replica is stored and
\* produces no outbound message.
C4_ReplicationNoLoops ==
  [][\A n \in Peers : \A m \in BagToSet(msgs) : HandlePUT(n, m) => PutEffect(n, m)]_vars

\* After one JOIN and one client PUT: the receiver n, which is not
\* responsible for the key, and its successor s both hold the value and
\* nothing is left in flight.
C4_Witness ==
  /\ ops = 2 /\ msgs = EmptyBag
  /\ \E n, s \in Peers : \E k \in Keys :
       /\ n # s /\ successor[n] = SelfRef(s)
       /\ predecessor[n] # None
       /\ ~is_responsible(predecessor[n], node_id(n), get_hash(k))
       /\ store[n][k] = "v1" /\ store[s][k] = "v1"

\* The peers a successor reference of p designates, by identifier.
SuccPeers(p) == {q \in Peers : node_id(q) = successor[p].id}

\* The peers met from the set S in at most n further successor hops.
RECURSIVE Walk(_, _)
Walk(S, n) ==
  IF n = 0 THEN S ELSE Walk(S \cup UNION {SuccPeers(p) : p \in S}, n - 1)

\* The successor pointers of the peers of M form one cycle through all of M.
SingleCycle(M) ==
  \A p \in M :
    /\ SuccPeers(p) # {}
    /\ Walk(SuccPeers(p), Cardinality(M)) = M

\* The peers that called join, and the ring members: they and their
\* bootstrap peers.
Joiners == {p \in Peers : joined[p] # "-"}
Members == Joiners \cup {q \in Peers : \E p \in Joiners : joined[p] = q}

RECURSIVE SumTicks(_)
SumTicks(S) ==
  IF S = {} THEN 0
  ELSE LET p == CHOOSE x \in S : TRUE IN hbTicks[p] + SumTicks(S \ {p})

\* C2: after peers joined a running ring and nothing else happened but
\* maintenance ticks (at least one on every member) and message deliveries,
\* with no crash and nothing in flight, the successor pointers of the members
\* form one single cycle containing every member.
C2_SingleCycle ==
  ( /\ Joiners # {}
    /\ \A p \in Peers : Alive(p) /\ maint[p]
    /\ msgs = EmptyBag
    /\ \A p \in Members : hbTicks[p] >= 1
    /\ ops = Cardinality(Joiners) + SumTicks(Peers) )
  => SingleCycle(Members)

\* C3: from two singleton peers a and b, after b called join(a) and every
\* resulting message is delivered, a.successor = b, a.predecessor = b and
\* b.predecessor = a.
C3_TwoPeerJoin ==
  \A a, b \in Peers :
    (a # b /\ joined[b] = a /\ ops = 1 /\ msgs = EmptyBag) =>
      /\ successor[a] = SelfRef(b)
      /\ predecessor[a] = SelfRef(b)
      /\ predecessor[b] = SelfRef(a)

\* C5: with every process up and nothing in flight, every key stored on the
\* peer responsible for its hash is stored with the same value on that peer's
\* immediate successor.
C5_ReplicationInvariant ==
  (msgs = EmptyBag /\ \A p \in Peers : Alive(p)) =>
    \A p, s \in Peers : \A k \in Keys :
      ( /\ p # s /\ successor[p] = SelfRef(s)
        /\ store[p][k] # NoValue
        /\ is_responsible(predecessor[p], node_id(p), get_hash(k)) )
      => store[s][k] = store[p][k]

\* What the GET handler of n must do with the GET m.
GetEffect(n, m) ==
  LET rest == Take(msgs, m)
      new == msgs' (-) rest
      val == store[n][m.data.key]
      s == successor[n]
      requester == [ip |-> m.data.requester_ip, port |-> m.data.requester_port]
  IN /\ ( /\ val # NoValue
          /\ requester # [ip |-> Ip[n], port |-> Port[n]]
          /\ Listening(requester.ip, requester.port) ) =>
          /\ BagCardinality(new) = 1
          /\ \A r \in BagToSet(new) :
               /\ r.type = "RESULT" /\ r.to = requester
               /\ r.data = [key |-> m.data.key, value |-> val]
     /\ ( /\ val = NoValue
          /\ requester # [ip |-> Ip[n], port |-> Port[n]]
          /\ Listening(s.ip, s.port) ) =>
          new = SetToBag({[m EXCEPT !.to = Addr(s)]})

\* C8: a GET naming a requester (as the console of the requester builds it)
\* is forwarded unchanged by a peer that does not hold the key, and another
\* peer that holds the key sends exactly one RESULT(key, value) to the
\* requester named in the GET and nothing else.
C8_RemoteGet ==
  [][\A n \in Peers : \A m \in BagToSet(msgs) :
       HandleGET(n, m) => GetEffect(n, m)]_vars

\* C9: a maintenance tick of a peer whose successor is another peer that no
\* longer listens leaves the peer's successor pointing to the peer itself and
\* the maintenance loop running.
C9_SuccessorFailureRecovery ==
  [][\A n \in Peers :
       ( /\ tareas_mantenimiento(n)
         /\ successor[n].id # node_id(n)
         /\ ~Listening(successor[n].ip, successor[n].port) )
       => (successor'[n] = SelfRef(n) /\ maint'[n])]_vars

\* b has left the three-peer ring a -> b -> c -> a.
LeftRing(a, b, c) ==
  /\ a # b /\ b # c /\ a # c
  /\ proc[b] = "left" /\ Alive(a) /\ Alive(c)
  /\ successor[b] = SelfRef(c) /\ predecessor[b] = SelfRef(a)
  /\ successor[c] = SelfRef(a) /\ predecessor[a] = SelfRef(c)

\* C10: in a three-peer ring a -> b -> c -> a that b has left, the delivery
\* of b's UPDATE(role=successor) to a makes a.successor the full reference of
\* c (id, ip and port of c), and the delivery of b's UPDATE(role=predecessor)
\* to c makes c.predecessor the full reference of a.
C10_GracefulLeave ==
  [][\A a, b, c \in Peers : \A m \in BagToSet(msgs) :
       (LeftRing(a, b, c) /\ m.sender_id = str(node_id(b))) =>
         /\ ( /\ HandleUPDATE(a, m) /\ m.data.role = "successor"
              /\ successor[a] = SelfRef(b) )
            => successor'[a] = SelfRef(c)
         /\ ( /\ HandleUPDATE(c, m) /\ m.data.role = "predecessor"
              /\ predecessor[c] = SelfRef(b) )
            => predecessor'[c] = SelfRef(a)]_vars

\* The data members section 6 of the specification requires for each type.
RequiredData ==
  [t \in MessageTypes |->
     CASE t = "JOIN" -> {"ip", "port"}
       [] t = "PUT" -> {"key", "value"}
       [] t = "GET" -> {"key", "requester_ip", "requester_port"}
       [] t = "RESULT" -> {"key", "value"}
       [] t = "HEARTBEAT" -> {"ip", "port"}
       [] t = "UPDATE" -> {"role", "ip", "port"}]

\* The JSON text p is not a valid envelope: not JSON, a member of the
\* envelope absent, a type outside the enum, or a required member of data
\* absent.
InvalidPayload(p) ==
  \/ "raw" \in DOMAIN p
  \/ ~(EnvelopeFields \subseteq DOMAIN p)
  \/ p.type \notin MessageTypes
  \/ ~(RequiredData[p.type] \subseteq DOMAIN p.data)

\* The step is the processing of the message m by the peer n.
Processes(n, m) ==
  \/ RejectPayload(n, m) \/ HandlerRaises(n, m)
  \/ HandleJOIN(n, m) \/ HandlePUT(n, m) \/ HandleGET(n, m)
  \/ HandleHEARTBEAT(n, m) \/ HandleUPDATE(n, m) \/ HandleRESULT(n, m)

\* C11: the processing of a payload that is not JSON or is not a valid
\* envelope changes neither the successor, the predecessor nor the store,
\* prints nothing, sends nothing (the bag only loses the payload), and
\* leaves the process of the peer up.
C11_SurvivesInvalidPayload ==
  [][\A n \in Peers : \A m \in BagToSet(msgs) :
       (Processes(n, m) /\ InvalidPayload(Envelope(m))) =>
         /\ successor' = successor /\ predecessor' = predecessor
         /\ store' = store /\ printed' = printed
         /\ msgs' = Take(msgs, m)
         /\ proc' = proc]_vars

\* C12: the HEARTBEAT handler makes the sender the predecessor of the
\* receiver whatever the previous predecessor was, and restarts the
\* predecessor's timeout.
C12_HeartbeatAcceptsSender ==
  [][\A n \in Peers : \A m \in BagToSet(msgs) :
       (HandleHEARTBEAT(n, m) /\ IsInt(m.sender_id)) =>
         /\ predecessor'[n] = PeerRef(int(m.sender_id), m.data.ip, m.data.port)
         /\ hbTicks'[n] = 0]_vars

\* C13: notify(c) returns True and makes c the predecessor exactly when there
\* is no predecessor or c lies strictly between the predecessor's identifier
\* and the peer's own on the ring; otherwise it returns False and the
\* predecessor is unchanged.
C13_NotifyStrictlyBetween ==
  (call.fn = "notify" /\ call.out # "pending") =>
    LET accepted == \/ call.pred = None
                    \/ call.c \in Arc(call.pred.id, call.n_id) \ {call.n_id}
    IN /\ call.out = Repr(accepted)
       /\ call.after = IF accepted THEN PeerRef(call.c, "n", 2) ELSE call.pred

\* A call that was refused on the wrap-around side (the predecessor's
\* identifier is above the peer's own) and left the predecessor in place.
C13_Witness ==
  /\ call.fn = "notify" /\ call.out = "False"
  /\ call.pred # None /\ call.pred.id > call.n_id
  /\ call.c # call.pred.id /\ call.c # call.n_id
  /\ call.after = call.pred

\* C14: a HEARTBEAT from the current predecessor restarts the predecessor's
\* timeout, and a maintenance tick clears the predecessor only when a whole
\* timeout has elapsed since it was last restarted; hence a predecessor whose
\* HEARTBEAT arrives at every tick is never cleared.
C14_LivePredecessorKept ==
  [][\A n \in Peers :
       /\ \A m \in BagToSet(msgs) :
            ( /\ HandleHEARTBEAT(n, m) /\ IsInt(m.sender_id)
              /\ predecessor[n] # None
              /\ predecessor[n].id = int(m.sender_id) )
            => hbTicks'[n] = 0
       /\ ( /\ tareas_mantenimiento(n)
            /\ predecessor[n] # None /\ predecessor'[n] = None )
          => hbTicks'[n] * T_hb >= T_timeout]_vars

\* C15: under fair scheduling, a peer that is up and has a predecessor
\* eventually has none (or is no longer up), whether its successor is itself
\* or another peer.
C15_SilentPredecessorAgedOut ==
  \A n \in Peers :
    (Alive(n) /\ predecessor[n] # None) ~> (~Alive(n) \/ predecessor[n] = None)

\* The peer n is alone: its successor is itself and it has no predecessor.
Singleton(n) == successor[n] = SelfRef(n) /\ predecessor[n] = None

\* C16: on a peer with no neighbours, console PUT(k, v) stores v under k and
\* nothing else, console GET(k) of a stored key prints the stored value from
\* the local store, and neither command sends a message or changes the
\* successor or the predecessor.
C16_SingletonStoreRetrieve ==
  [][\A n \in Peers : \A k \in Keys :
       /\ \A v \in Values :
            (ConsolePUT(n, k, v) /\ Singleton(n)) =>
              /\ store' = [store EXCEPT ![n][k] = v]
              /\ msgs' = msgs
              /\ successor' = successor /\ predecessor' = predecessor
       /\ (ConsoleGET(n, k) /\ Singleton(n) /\ store[n][k] # NoValue) =>
            /\ printed'[n] = printed[n] \cup
                 {[kind |-> "local", key |-> k, value |-> store[n][k]]}
            /\ msgs' = msgs
            /\ store' = store
            /\ successor' = successor /\ predecessor' = predecessor]_vars

\* C17: deserialize_message raises a validation error, and returns no
\* Message, for every input that is not JSON, lacks a member of the envelope,
\* names a type outside the enum, or whose data lacks a member required for
\* its type.
C17_DeserializeRejectsInvalid ==
  (call.fn = "deserialize_message" /\ call.out = "done"
     /\ InvalidPayload(call.json_str))
    => call.result.outcome = "ValueError"

C19_SendOutcome ==
  (call.fn = "enviar_mensaje" /\ call.out # "pending") =>
    call.out = Repr(Listening(call.host, call.puerto))

\* The nodes of the list.
RingMembers == {call.ring[i] : i \in 1..Len(call.ring)}

\* The node at the given number of places after the node at from, in ring
\* order.
RingAfter(from, places) == call.ring[((from - 1 + places) % Len(call.ring)) + 1]

\* The nodes put_value is to write: the one find_successor returns for the
\* hash of the key and the next Min(r, n) - 1 nodes in ring order.
ReplicaNodes(key, r) ==
  LET primary == find_successor(call.ring, calcular_hash(key))
      from == CHOOSE i \in 1..Len(call.ring) : call.ring[i] = primary
  IN {RingAfter(from, d) : d \in 0..(Min(r, Len(call.ring)) - 1)}

\* C20: put_value(ring, key, value, replication = r) on a ring of n nodes
\* stores the value on exactly Min(r, n) nodes, the node find_successor
\* returns for the hash of the key and the next Min(r, n) - 1 nodes in ring
\* order, and writes the key on no other node.
C20_PutValueReplicas ==
  [][\A key \in RingKeys, value \in RingValues, r \in 1..MaxReplication :
       (RingPutValue(key, value, r) /\ call.ring # <<>>) =>
         /\ Cardinality(ReplicaNodes(key, r)) = Min(r, Len(call.ring))
         /\ \A node \in ReplicaNodes(key, r) : call'.data[node][key] = value
         /\ \A node \in RingNodes \ ReplicaNodes(key, r) :
              call'.data[node] = call.data[node]
         /\ \A node \in RingNodes : \A k \in RingKeys \ {key} :
              call'.data[node][k] = call.data[node][k]]_vars

\* A key whose hash exceeds every node_id has been stored with r = 2 on a
\* ring of three nodes: the first two nodes of the list hold it, the third
\* does not.
C20_Witness ==
  /\ call.fn = "ring" /\ Len(call.ring) = 3 /\ ops = 4
  /\ Cardinality({node \in RingMembers : call.data[node]["alumno1"] # NoValue}) = 2
  /\ call.data[call.ring[1]]["alumno1"] = "nota=6.0"
  /\ call.data[call.ring[2]]["alumno1"] = "nota=6.0"

\* C21: after any sequence of add_node and put_value calls, get_value(ring,
\* k) returns the value of the most recent put_value for k that returned, and
\* None when there was none.
C21_GetValueLatest ==
  (call.fn = "ring" /\ call.out.fn = "get_value") =>
    call.out.result = call.last_put[call.out.key]

\* A key was put twice: a node still holds the earlier value and get_value
\* returned the later one.
C21_Witness ==
  /\ call.fn = "ring" /\ call.out.fn = "get_value"
  /\ call.out.result = "nota=7.0"
  /\ \E node \in RingNodes : call.data[node][call.out.key] = "nota=6.0"

\* The nodes within the given number of hops of the nodes of S over
\* successor and predecessor links.
RECURSIVE WithinHops(_, _)
WithinHops(S, hops) ==
  IF hops = 0 THEN S
  ELSE WithinHops(S \cup {call.successor[x] : x \in S}
                    \cup {call.predecessor[x] : x \in S}, hops - 1)

\* The nodes within ttl hops of start that hold the key.
HoldersWithin(start, key, ttl) ==
  {node \in WithinHops({start}, ttl) : call.data[node][key] # NoValue}

\* C22: flood_search(start, key, ttl) returns a value exactly when a node
\* holding the key is within ttl hops of start over successor and
\* predecessor links, the value being the one such a node holds, and None
\* otherwise; with ttl = 0 only the start node is read; a negative ttl
\* raises an error.
C22_FloodSearchWithinTtl ==
  (call.fn = "ring" /\ call.out.fn = "flood_search") =>
    LET o == call.out
    IN IF o.ttl < 0 THEN o.result = "ValueError"
       ELSE /\ o.result # "ValueError"
            /\ (o.result # NoValue) <=> (HoldersWithin(o.start, o.key, o.ttl) # {})
            /\ o.result # NoValue =>
                 \E node \in HoldersWithin(o.start, o.key, o.ttl) :
                   o.result = call.data[node][o.key]
            /\ o.ttl = 0 => o.result = call.data[o.start][o.key]

\* On a ring of four nodes a search with ttl = 2 found the key on the node
\* opposite the start, which alone holds it.
C22_Witness ==
  /\ call.fn = "ring" /\ call.out.fn = "flood_search"
  /\ Len(call.ring) = 4 /\ call.out.ttl = 2
  /\ call.out.result # NoValue
  /\ HoldersWithin(call.out.start, call.out.key, 1) = {}

\* The time a call takes as now: the argument, the clock when it is left out.
TimeOf(t) == IF t = NoTime THEN call.clock ELSE t

\* C23: check_failed_neighbours(timeout, now) returns exactly the neighbours
\* whose last recorded heartbeat t satisfies now - t > timeout, and
\* receive_heartbeat(sender, t) records t for the sender and changes the
\* time recorded for no other neighbour and no other node.
C23_HeartbeatExpiry ==
  [][\A node \in RingNodes :
       /\ \A timeout \in 0..MaxTimeout, now \in Times \cup {NoTime} :
            RingCheckFailed(node, timeout, now) =>
              /\ \A nb \in RingNodes :
                   nb \in call'.out.result <=>
                     /\ nb \in DOMAIN call.last_heartbeat[node]
                     /\ TimeOf(now) - call.last_heartbeat[node][nb] > timeout
              /\ call'.last_heartbeat = call.last_heartbeat
       /\ \A sender \in RingNodes, t \in Times \cup {NoTime} :
            RingReceiveHeartbeat(node, sender, t) =>
              /\ DOMAIN call'.last_heartbeat[node] =
                   DOMAIN call.last_heartbeat[node] \cup {sender}
              /\ call'.last_heartbeat[node][sender] = TimeOf(t)
              /\ \A nb \in DOMAIN call.last_heartbeat[node] \ {sender} :
                   call'.last_heartbeat[node][nb] = call.last_heartbeat[node][nb]
              /\ \A other \in RingNodes \ {node} :
                   call'.last_heartbeat[other] = call.last_heartbeat[other]]_vars

\* Two neighbours were heard at time 0 and one of them again at time 2; the
\* check at time 2 with timeout 1 reports the silent one only.
C23_Witness ==
  /\ call.fn = "ring" /\ call.out.fn = "check_failed_neighbours"
  /\ call.out.timeout = 1 /\ TimeOf(call.out.current_time) = 2
  /\ call.out.result = {"127.0.0.1:5001"}
  /\ "127.0.0.1:5002" \in DOMAIN call.last_heartbeat[Observer]
  /\ call.last_heartbeat[Observer]["127.0.0.1:5002"] = 2

\* What the handler of m put on the wire: the bag afterwards less what was
\* in flight besides m.
SentBy(m) == msgs' (-) Take(msgs, m)

\* The step is the JOIN handler of n on m, a JOIN of another peer, which
\* has a numeric identifier and listens at the address it announces.
JoinOf(n, m) ==
  /\ HandleJOIN(n, m)
  /\ IsInt(m.sender_id)
  /\ int(m.sender_id) # node_id(n)
  /\ Listening(m.data.ip, m.data.port)

\* C24: every JOIN processed by a peer n results in exactly one
\* UPDATE(role = predecessor, ip = n.ip, port = n.port) sent to the address
\* of the joiner, whatever the local store of n holds.
C24_JoinReply ==
  [][\A n \in Peers : \A m \in BagToSet(msgs) :
       JoinOf(n, m) =>
         LET updates == {x \in BagToSet(SentBy(m)) : x.type = "UPDATE"}
         IN /\ updates =
                 {Msg(m.data.ip, m.data.port, "UPDATE", str(node_id(n)),
                      [role |-> "predecessor", ip |-> Ip[n], port |-> Port[n]])}
            /\ \A x \in updates : CopiesIn(x, SentBy(m)) = 1]_vars

\* C25: while it processes the JOIN of j, the peer n sends to j one PUT(k, v)
\* without the replica flag for exactly the entries (k, v) of its store with
\* hash(k) in the arc (n.id, j.id], sends no other PUT, and removes nothing
\* from its store.
C25_JoinHandoff ==
  [][\A n \in Peers : \A m \in BagToSet(msgs) :
       JoinOf(n, m) =>
         LET puts == {x \in BagToSet(SentBy(m)) : x.type = "PUT"}
             due == {k \in Keys : /\ store[n][k] # NoValue
                                  /\ get_hash(k) \in Arc(node_id(n), int(m.sender_id))}
         IN /\ {[to |-> x.to, data |-> x.data] : x \in puts} =
                 {[to |-> [ip |-> m.data.ip, port |-> m.data.port],
                   data |-> [key |-> k, value |-> store[n][k]]] : k \in due}
            /\ \A x \in puts : CopiesIn(x, SentBy(m)) = 1
            /\ store' = store]_vars

\* C26: a peer that processes a GET for a key present in its store, whatever
\* the stored value, the empty string included, sends exactly one
\* RESULT(key, value) to (requester_ip, requester_port) and does not forward
\* the GET.
C26_HolderAnswersGet ==
  [][\A n \in Peers : \A m \in BagToSet(msgs) :
       ( /\ HandleGET(n, m)
         /\ store[n][m.data.key] # NoValue
         /\ Listening(m.data.requester_ip, m.data.requester_port) ) =>
         /\ BagCardinality(SentBy(m)) = 1
         /\ \A r \in BagToSet(SentBy(m)) :
              /\ r.type = "RESULT"
              /\ r.to = [ip |-> m.data.requester_ip, port |-> m.data.requester_port]
              /\ r.data = [key |-> m.data.key, value |-> store[n][m.data.key]]]_vars

\* C27: a GET for a key that no peer holds is forwarded at most N times in
\* a ring of N peers, in every topology the peers reach.
C27_GetForwardingBounded ==
  call.fn = "forward" => call.hops <= Cardinality(Peers)

\* C28: a peer whose successor is itself that processes a HEARTBEAT from
\* the peer s takes s as its successor; a peer whose successor is another
\* peer keeps its successor.  Hence the HEARTBEAT of A that follows the JOIN
\* of B at the singleton A makes A the successor of B.
C28_HeartbeatClosesRing ==
  [][\A n \in Peers : \A m \in BagToSet(msgs) :
       (HandleHEARTBEAT(n, m) /\ IsInt(m.sender_id)) =>
         /\ successor'[n] =
              IF successor[n].id = node_id(n)
              THEN PeerRef(int(m.sender_id), m.data.ip, m.data.port)
              ELSE successor[n]
         /\ \A q \in Peers \ {n} : successor'[q] = successor[q]]_vars

\* The JOIN of B was processed by the singleton A, A's maintenance loop ran
\* once and its HEARTBEAT was processed by B, ahead of the UPDATE that
\* answers the JOIN: the successor of B is A.
C28_Witness ==
  /\ ops = 2 /\ hbTicks["A"] = 1
  /\ predecessor["A"] = SelfRef("B")
  /\ \E m \in BagToSet(msgs) :
       /\ m.type = "UPDATE" /\ m.sender_id = str(node_id("A"))
       /\ m.to = [ip |-> Ip["B"], port |-> Port["B"]]
  /\ predecessor["B"] = SelfRef("A")
  /\ successor["B"] = SelfRef("A")

\* The reference of the peer that listens at (ip, port).
RefAt(ip, port) ==
  LET p == CHOOSE q \in Peers : Ip[q] = ip /\ Port[q] = port
  IN SelfRef(p)

\* C29: the UPDATE handler sets the pointer named by role to the reference
\* of the peer whose ip and port the message carries, a reference whose id
\* is the node id of that peer also when another peer sent the message, and
\* leaves the other pointer and the store unchanged.
C29_UpdateSetsNamedPointer ==
  [][\A n \in Peers : \A m \in BagToSet(msgs) :
       (HandleUPDATE(n, m) /\ IsInt(m.sender_id)) =>
         LET carried == RefAt(m.data.ip, m.data.port)
         IN /\ m.data.role = "predecessor" =>
                 predecessor'[n] = carried /\ successor'[n] = successor[n]
            /\ m.data.role = "successor" =>
                 successor'[n] = carried /\ predecessor'[n] = predecessor[n]
            /\ store' = store]_vars

\* C30: the id tested against the peer's own and the ip and port used as
\* destination of a send to the successor all come from one successor
\* reference, one the peer held while it prepared the send, also when a
\* handler replaces the successor meanwhile.
C30_ConsistentSuccessorSnapshot ==
  (call.fn = "tareas_mantenimiento" /\ call.pc = "sent") =>
    PeerRef(call.id, call.ip, call.port) \in call.held

\* The ring ids strictly between a and b going clockwise from a; none when
\* a = b.
OpenArc(a, b) == IF a = b THEN {} ELSE Arc(a, b) \ {b}

\* C31: process_stabilize_response(c) replaces the successor with the
\* candidate exactly when c is not None and c lies strictly between the
\* node's id and the successor's id on the ring (wrapping when the node's id
\* is the larger); otherwise, and whenever the successor is the node itself,
\* the successor is unchanged; the predecessor is never changed.
C31_StabilizeAdoptsBetween ==
  (call.fn = "process_stabilize_response" /\ call.out = "done") =>
    /\ call.after = IF call.c # None.id /\ call.c \in OpenArc(call.n_id, call.s_id)
                    THEN PeerRef(call.c, "n", 2)
                    ELSE PeerRef(call.s_id, "h", 1)
    /\ call.pred_after = call.pred

\* A candidate past the top of the ring is adopted by a node whose successor
\* has the smaller id, and the predecessor it had is kept.
C31_Witness ==
  /\ call.fn = "process_stabilize_response" /\ call.out = "done"
  /\ call.n_id = 12 /\ call.s_id = 3 /\ call.c = 14
  /\ call.after = PeerRef(14, "n", 2)
  /\ call.pred = PredWithId(0) /\ call.pred_after = PredWithId(0)

\* C32: after any sequence of add_node calls with nodes of distinct ids the
\* ring list is sorted by node_id, the successor of every node is the next
\* node of the list and its predecessor the previous one (cyclically), each
\* node is the predecessor of its successor and the successor of its
\* predecessor, and a single node is its own successor and predecessor.
C32_AddNodeKeepsRing ==
  call.fn = "ring" =>
    LET ring == call.ring
        n == Len(ring)
    IN /\ \A i \in 1..n, j \in 1..n :
            i < j => ring_node_id(ring[i]) < ring_node_id(ring[j])
       /\ \A i \in 1..n :
            /\ call.successor[ring[i]] = ring[(i % n) + 1]
            /\ call.predecessor[ring[i]] = ring[((i + n - 2) % n) + 1]
            /\ call.predecessor[call.successor[ring[i]]] = ring[i]
            /\ call.successor[call.predecessor[ring[i]]] = ring[i]
       /\ n = 1 => /\ call.successor[ring[1]] = ring[1]
                   /\ call.predecessor[ring[1]] = ring[1]

\* The four nodes have been added: the list runs from the smallest id to the
\* largest, and the node of the largest id has the first node of the list as
\* its successor.
C32_Witness ==
  /\ call.fn = "ring"
  /\ call.ring = <<"127.0.0.1:5003", "127.0.0.1:5002", "127.0.0.1:5001", "127.0.0.1:5000">>
  /\ call.successor["127.0.0.1:5000"] = "127.0.0.1:5003"
  /\ call.predecessor["127.0.0.1:5003"] = "127.0.0.1:5000"
  /\ call.successor["127.0.0.1:5002"] = "127.0.0.1:5001"

\* The peer of the stable ring whose arc (predecessor id, own id] holds the
\* hash of k.
ResponsibleFor(k) ==
  CHOOSE p \in AllPeers :
    get_hash(k) \in Arc(node_id(PrevOnRing(p)), node_id(p))

\* C33: in a stable ring of three or more peers a console PUT(k, v) issued at
\* a peer that is not responsible for hash(k) eventually stores (k, v) on the
\* responsible peer: the non-replica PUT sent to the successor travels on
\* until it reaches that peer.
C33_ForwardedPutReachesResponsible ==
  \A k \in Keys, v \in Values :
    (\E m \in BagToSet(msgs) :
        m.type = "PUT" /\ ~IsReplica(m.data) /\ m.data.key = k /\ m.data.value = v)
      ~> (store[ResponsibleFor(k)][k] = v)

\* C34: the maintenance loop never clears a fresh predecessor: when a
\* HEARTBEAT, UPDATE or JOIN handler installs a predecessor between the loop's
\* timeout test and its assignment of None, the assignment does not clear it;
\* the predecessor the loop clears is the one whose silence it tested.
C34_FreshPredecessorKept ==
  [][(call.pc = "clear" /\ call'.pc = "sleep") =>
       (predecessor[call.peer] # call.tested =>
          predecessor'[call.peer] = predecessor[call.peer])]_vars

\* C35: successor-failure recovery resets only the successor that failed: when
\* a JOIN, UPDATE or HEARTBEAT handler installs a different successor between
\* the failed heartbeat send and handle_successor_failure, the successor is
\* that new one afterwards and not the peer itself; the predecessor and the
\* store are unchanged by the recovery.
C35_RecoveryKeepsNewSuccessor ==
  [][(call.pc = "failure" /\ call'.pc = "test") =>
       /\ successor[call.peer] # call.sent_to =>
            successor'[call.peer] = successor[call.peer]
       /\ predecessor' = predecessor
       /\ store' = store]_vars

====
